---- MODULE Spec2Model ----
(***************************************************************************)
(* Tree search over programs: the orchestrator MCTS (search/mcts/mcts.py)  *)
(* and the program store DBClient (eval/open/db_client.py).                *)
(*                                                                         *)
(* The store is the table "programs"; a row's id is its position in the    *)
(* table (a serial key, RETURNING id), which is also its creation order.   *)
(* A nullable column or attribute holds Null (Python None, SQL NULL) or a  *)
(* one-element tuple <<v>>.                                                *)
(***************************************************************************)
EXTENDS Integers, Sequences, FiniteSets, TLC

VARIABLES
    table,               \* the rows of "programs", in creation order
    client_writes,       \* how many writes other clients of the store have made
    pc,                  \* where MCTS.search / run_iteration stands
    iterations_left,     \* iterations of the loop of search still to run
    samples_per_iteration,
    skip_failures,
    attempt,             \* the attempt number of tenacity around run_iteration
    retry_count,         \* self.retry_count
    parent,              \* the sampled parent: Null or <<id>>
    start_state,         \* the state the batch is evaluated from
    programs,            \* the batch: generated, then evaluated programs
    save_tasks,          \* indices of the batch handed to create_program
    pending,             \* save tasks that have not run yet
    written,             \* index of the batch -> id its create_program returned
    gather_exc,          \* the first exception a save task raised, or Null
    exc,                 \* the exception raised in the iteration, or Null
    raised,              \* what reached the caller of search, or Null
    backoff,             \* save tasks asleep between two attempts of create_program
    orphans,             \* programs of save tasks that outlived their gather
    pool,                \* self._pool: 0 (None) or the number of the pool object
    pools_built,         \* how many ThreadedConnectionPool objects were constructed
    lock,                \* self._lock: 0 (free) or the caller that holds it
    calls,               \* caller -> the store operation it is in
    llm_model,           \* self.llm.model
    model_calls,         \* n_samples of every llm.acall of the running batch
    responses,           \* sample -> what its model call gave, once it ended
    extraction           \* PythonParser.extract_code: the text and how far it is

vars == <<table, client_writes, pc, iterations_left, samples_per_iteration,
          skip_failures, attempt, retry_count, parent, start_state, programs,
          save_tasks, pending, written, gather_exc, exc, raised, backoff,
          orphans, pool, pools_built, lock, calls, llm_model, model_calls,
          responses, extraction>>

(* The variables of one run_iteration call (its locals).                   *)
locals ==
    <<parent, start_state, programs, save_tasks, pending, written, gather_exc>>

(* The parameters of search.                                               *)
params == <<samples_per_iteration, skip_failures>>

(* The save tasks that are not in the hands of a running gather.           *)
detached == <<backoff, orphans>>

(* The state of the store client: the pool, its lock, the calls in flight. *)
store_vars == <<pool, pools_built, lock, calls>>

(* The model and the model calls of the batch being generated.             *)
generation_vars == <<llm_model, model_calls, responses>>

-----------------------------------------------------------------------------
(* Bounds of the model.                                                    *)

MaxRows == 2             \* rows the table may hold
MaxClientWrites == 1     \* writes other clients of the store make
MaxDetached == 1         \* save tasks asleep or orphaned at one time
MaxStoreRows == 3        \* rows the table may hold when the store client is called
MaxBeamWidth == 2        \* beam_width of get_beam_heads
MaxTries == 3            \* attempts of one call that are told apart
MaxPools == 2            \* pools constructed

(* The inputs the model draws.                                             *)
IterationCounts == {1, 2}        \* n_iterations
SampleCounts == {2}              \* samples_per_iteration
ClientDepths == {0, 1, 2}        \* program.depth of a client's program

(* Program constants.                                                      *)

DefaultVersion == 1      \* MCTS(version=1)
max_retries == 3         \* self.max_retries
stop_after_attempt == 3  \* tenacity.stop_after_attempt(3) on run_iteration
ProgramDefaultDepth == 0 \* the depth of a Program nobody set a depth on

Null == <<>>
Some(v) == <<v>>
Get(x) == x[1]

States == {Some("s1")}
InitialState == Some("s0")
Values == {Some(1)}
Advantages == {Some(1)}

(* PythonParser.extract_code before it is given a text.                     *)
NoExtraction ==
    [pc |-> "idle", choice |-> <<>>, content |-> <<>>, code |-> Null,
     consulted |-> {}]

(* Exceptions by what the retry policies look at: a psycopg2.Error, or     *)
(* anything else (TypeError, RuntimeError, ...).                           *)
ExcKinds == {"psycopg2.Error", "other"}

-----------------------------------------------------------------------------
(* Numbers: program.depth / 2 is Python's true division, so a depth is a   *)
(* rational num/den in lowest terms.                                       *)

Rat(n) == [num |-> n, den |-> 1]

HalfOf(r) ==
    IF r.num % 2 = 0 THEN [num |-> r.num \div 2, den |-> r.den]
                     ELSE [num |-> r.num, den |-> 2 * r.den]

PlusOne(r) == [num |-> r.num + r.den, den |-> r.den]

-----------------------------------------------------------------------------
(* The store.                                                              *)

(* A Program as the orchestrator or a client holds it in memory.           *)
NewProgram(code, version) ==
    [code |-> code, parent_id |-> Null, state |-> Null, value |-> Null,
     advantage |-> Null, depth |-> Rat(ProgramDefaultDepth), version |-> version]

(* state.to_raw() if program.state else None *)
StateJson(p) == IF p.state # Null THEN p.state ELSE Null

(* The depth column the INSERT is given: program.depth/2.                  *)
DepthOnWrite(p) == HalfOf(p.depth)

(* The row the INSERT of create_program writes for program p.              *)
RowOf(p) ==
    [code |-> p.code, value |-> p.value, parent_id |-> p.parent_id,
     state_json |-> StateJson(p), version |-> p.version,
     depth |-> DepthOnWrite(p), advantage |-> p.advantage]

(* NextId with a key that is not advanced once the table has a row.       *)
NextIdReused(t) == IF Len(t) = 0 THEN 1 ELSE Len(t)

(* The id the INSERT returns: the next value of the serial key.            *)
NextId(t) == Len(t) + 1

(* Insert as an upsert that lands on the parent's row.                      *)
InsertOver(t, p) ==
    IF p.parent_id # Null /\ Get(p.parent_id) \in DOMAIN t
    THEN [t EXCEPT ![Get(p.parent_id)] = RowOf(p)]
    ELSE Append(t, RowOf(p))

(* INSERT INTO programs ... RETURNING id: the new row is stored under it.   *)
Insert(t, p) ==
    [i \in DOMAIN t \cup {NextId(t)} |->
        IF i = NextId(t) THEN RowOf(p) ELSE t[i]]

(* Program.from_row: the columns as they are, under the attribute names.   *)
FromRow(id, row) ==
    [id |-> Some(id), code |-> row.code, parent_id |-> row.parent_id,
     state |-> row.state_json, value |-> row.value, advantage |-> row.advantage,
     depth |-> row.depth, version |-> row.version]

-----------------------------------------------------------------------------
(* DBClient.sample_parent: the rows of the version with an advantage, the   *)
(* LIMIT most recent of them; every weight (tanh(..) + 1)/2 + 1e-6 is       *)
(* positive, so random.choices can return any row of the window.            *)

WindowLimit == 300

(* Eligible without the version filter.                                     *)
EligibleAnyVersion(t, version) == {i \in DOMAIN t : t[i].advantage # Null}

Eligible(t, version) ==
    {i \in DOMAIN t : t[i].version = version /\ t[i].advantage # Null}

Recent(t, version) ==
    {i \in Eligible(t, version) :
        Cardinality({j \in Eligible(t, version) : j > i}) < WindowLimit}

(* What sample_parent(version) may return: None, or the row re-fetched by id. *)
SampleParentResults(t, version) ==
    IF Recent(t, version) = {} THEN {Null}
    ELSE {Some(i) : i \in Recent(t, version)}

(* The adaptive period of the calls of the model; strengths are counted in  *)
(* halves (0, 1, 2 for 0.0, 0.5, 1.0), which is what (sin + 1) / 2 gives at  *)
(* the quarter turns of this period.                                        *)
Period == 4

(* sin(2 * pi * k / Period) at the quarter turns.                           *)
SinQuarter(k) ==
    CASE k % Period = 1 -> 1
      [] k % Period = 3 -> -1
      [] OTHER -> 0

(* step_count: SELECT COUNT of the rows of programs WHERE version = ...     *)
StepCount(t, version) == Cardinality({i \in DOMAIN t : t[i].version = version})

(* The compression strength of a call, in halves: the fixed one, or          *)
(* (math.sin(2 * math.pi * step_count / adaptive_period) + 1) / 2.           *)
CompressionStrength(arg, t) ==
    IF arg.compression_strength # Null THEN Get(arg.compression_strength)
    ELSE SinQuarter(StepCount(t, arg.version)) + 1

AdvantageOf(t, i) == Get(t[i].advantage)

RECURSIVE SumOf(_, _)
SumOf(t, S) ==
    IF S = {} THEN 0
    ELSE LET i == CHOOSE j \in S : TRUE
         IN AdvantageOf(t, i) + SumOf(t, S \ {i})

(* value - mean_value, times the number of values.                          *)
Deviation(t, S, i) == Cardinality(S) * AdvantageOf(t, i) - SumOf(t, S)

(* std_value > 0, with std_value = statistics.stdev(values) if               *)
(* len(values) > 1 else 1.0.                                                *)
StdPositive(t, S) ==
    Cardinality(S) <= 1 \/ \E i \in S : Deviation(t, S, i) # 0

(* z_score without the test of std_value: the division fails at zero.       *)
ZScoreUnguarded(dev, std_positive) ==
    IF std_positive THEN Some(dev) ELSE Null

(* z_score = (value - mean_value) / std_value if std_value > 0 else 0, in   *)
(* units of 1 / (len(values) * std_value), the same for every row of a call. *)
ZScore(dev, std_positive) ==
    IF std_positive THEN Some(dev) ELSE Some(0)

(* transform_reward(value): (tanh(z_score * compression_strength) + 1) / 2  *)
(* + 1e-6 is a function of z_score * compression_strength, which stands for *)
(* it here; none when the z-score raised.                                   *)
TransformReward(t, S, i, strength) ==
    LET z == ZScore(Deviation(t, S, i), StdPositive(t, S))
    IN IF z = Null THEN Null ELSE Some(Get(z) * strength)

(* weights: one per row of the window; random.choices selects a row with    *)
(* probability weight / total_weight.                                       *)
Weights(t, arg) ==
    [i \in Recent(t, arg.version) |->
        TransformReward(t, Recent(t, arg.version), i, CompressionStrength(arg, t))]

(* math.tanh in floating point, as a stand-in that keeps what matters of    *)
(* it: odd, not decreasing, and exactly -1.0 and 1.0 from TanhSaturation    *)
(* on, in units of 1 / TanhSaturation.                                      *)
TanhSaturation == 4

Tanh(x) ==
    IF x >= TanhSaturation THEN TanhSaturation
    ELSE IF x <= -TanhSaturation THEN -TanhSaturation
    ELSE x

(* The 1e-6 of transform_reward, in the units of the weights below.         *)
Epsilon == 1

(* transform_reward without the epsilon.                                    *)
TransformedWeightNoEpsilon(x) == Tanh(x) + TanhSaturation

(* (compressed + 1.0) / 2.0 + 1e-6 for compressed = tanh(x), in units of    *)
(* 1 / (2 * TanhSaturation).                                                *)
TransformedWeight(x) == Tanh(x) + TanhSaturation + Epsilon

(* total_weight = sum(w[1] for w in weights) over the rows S of ws.         *)
RECURSIVE TotalWeight(_, _)
TotalWeight(ws, S) ==
    IF S = {} THEN 0
    ELSE LET i == CHOOSE j \in S : TRUE
         IN TransformedWeight(Get(ws[i])) + TotalWeight(ws, S \ {i})

(* The ids sampled_id may be: any of them under random.choice when          *)
(* total_weight == 0, else the ones random.choices can give, those of a     *)
(* weight that is not zero.                                                 *)
Selectable(ws) ==
    IF TotalWeight(ws, DOMAIN ws) = 0 THEN DOMAIN ws
    ELSE {i \in DOMAIN ws : TransformedWeight(Get(ws[i])) # 0}

-----------------------------------------------------------------------------
(* MCTS.search and MCTS.run_iteration.                                     *)

Idle == pc \in {"idle", "returned", "fatal"}

NoLocals ==
    /\ parent' = Null
    /\ start_state' = Null
    /\ programs' = <<>>
    /\ save_tasks' = {}
    /\ pending' = {}
    /\ written' = <<>>
    /\ gather_exc' = Null

(* search(n_iterations, samples_per_iteration, skip_failures): the loop     *)
(* enters its first iteration.                                              *)
Search(n, s, skip) ==
    /\ Idle
    /\ pc' = "sample"
    /\ iterations_left' = n
    /\ samples_per_iteration' = s
    /\ skip_failures' = skip
    /\ attempt' = 1
    /\ raised' = Null
    /\ exc' = Null
    /\ NoLocals
    /\ UNCHANGED <<table, client_writes, retry_count, detached, store_vars, generation_vars, extraction>>

(* StartStateOf that ignores the parent.                                    *)
StartStateInitial(t, par) == InitialState

(* start_state = parent.state if parent else self.initial_state            *)
StartStateOf(t, par) ==
    IF par # Null THEN t[Get(par)].state_json ELSE InitialState

(* parent = await self.sampler.sample_parent(version=self.version)          *)
SampleParent ==
    /\ pc = "sample"
    /\ \E par \in SampleParentResults(table, DefaultVersion) :
          /\ parent' = par
          /\ start_state' = StartStateOf(table, par)
    /\ pc' = "generate"
    /\ programs' = <<>>
    /\ save_tasks' = {}
    /\ pending' = {}
    /\ written' = <<>>
    /\ gather_exc' = Null
    /\ exc' = Null
    /\ UNCHANGED <<table, client_writes, iterations_left, params, attempt,
                   retry_count, raised, detached, store_vars, generation_vars, extraction>>

(* except Exception as e: the counter goes up, is reset when it reaches     *)
(* max_retries, and e is raised again in both branches.                     *)
RetryCountAfter(c) == IF c + 1 >= max_retries THEN 0 ELSE c + 1

(* tenacity around run_iteration: retry_if_exception_type(psycopg2.Error)   *)
(* with stop_after_attempt(3).                                              *)
(* Retried without the exception type test.                                 *)
RetriedAny(e, a) == a < stop_after_attempt

Retried(e, a) == e = Some("psycopg2.Error") /\ a < stop_after_attempt

(* What leaves run_iteration when tenacity does not retry: an exception the *)
(* retry condition rejects is raised as it is; when the attempts are used   *)
(* up (no reraise=True) tenacity raises its RetryError around the last one. *)
Propagated(e) ==
    IF e = Some("psycopg2.Error") THEN Some("RetryError") ELSE e

(* An exception e leaves the try block of run_iteration: the handler runs,  *)
(* then tenacity starts the next attempt or lets the exception out, which   *)
(* ends search. exc keeps e until the next attempt samples a parent.        *)
IterationExcept(e) ==
    /\ retry_count' = RetryCountAfter(retry_count)
    /\ exc' = e
    /\ IF Retried(e, attempt)
       THEN /\ pc' = "sample"
            /\ attempt' = attempt + 1
            /\ raised' = raised
       ELSE /\ pc' = "fatal"
            /\ attempt' = attempt
            /\ raised' = Propagated(e)
    /\ UNCHANGED <<iterations_left, params>>

(* No exception leaves the try block at this step.                          *)
Continue(next_pc) ==
    /\ pc' = next_pc
    /\ UNCHANGED <<iterations_left, params, attempt, retry_count, exc, raised>>

(* The sampler, or the reset of the environment for a root, raises.         *)
SampleParentRaises(e) ==
    /\ pc = "sample"
    /\ IterationExcept(e)
    /\ NoLocals
    /\ UNCHANGED <<table, client_writes, detached, store_vars, generation_vars, extraction>>

(* program.parent_id = parent.id if parent else None *)
WithParent(p, par) == [p EXCEPT !.parent_id = par]

(* _generate_programs_batch returns k <= n programs (a failed call or a     *)
(* completion without code drops its sample; any exception of the batch     *)
(* yields []); with no program the iteration returns, otherwise every       *)
(* program gets the parent's id.                                           *)
GenerateProgramsBatch(k) ==
    /\ pc = "generate"
    /\ k \in 0..samples_per_iteration
    /\ IF k = 0
       THEN /\ pc' = "iteration_done"
            /\ programs' = <<>>
       ELSE /\ pc' = "evaluate"
            /\ programs' = [i \in 1..k |->
                              WithParent(NewProgram("a", DefaultVersion), parent)]
    /\ UNCHANGED <<table, client_writes, iterations_left, params, attempt,
                   retry_count, parent, start_state, save_tasks, pending,
                   written, gather_exc, exc, raised, detached, store_vars, generation_vars, extraction>>

(* What the evaluator may leave on a program: each of state, value and      *)
(* advantage filled or not.                                                 *)
Outcomes ==
    [state : {Null} \cup States, value : {Null} \cup Values,
     advantage : {Null} \cup Advantages]

Evaluated(p, o) ==
    [p EXCEPT !.state = o.state, !.value = o.value, !.advantage = o.advantage]

(* ShouldSave without the skip_failures test.                               *)
ShouldSaveNoSkip(p, skip) == p.state # Null

(* ShouldSave without the state test.                                       *)
ShouldSaveNoState(p, skip) == ~skip \/ p.value # Null

(* The test run_iteration makes before it hands a program to create_program. *)
ShouldSave(p, skip) ==
    /\ p.state # Null
    /\ (~skip \/ p.value # Null)

(* evaluated_programs = await self.evaluator.evaluate_batch(programs,       *)
(* start_state), then the save tasks are built; gather is skipped when      *)
(* there is none.                                                           *)
EvaluateBatch ==
    /\ pc = "evaluate"
    /\ \E os \in [DOMAIN programs -> Outcomes] :
          LET ev == [i \in DOMAIN programs |-> Evaluated(programs[i], os[i])]
              tasks == {i \in DOMAIN ev : ShouldSave(ev[i], skip_failures)}
          IN /\ programs' = ev
             /\ save_tasks' = tasks
             /\ pending' = tasks
             /\ pc' = IF tasks = {} THEN "iteration_done" ELSE "persist"
    /\ UNCHANGED <<table, client_writes, iterations_left, params, attempt,
                   retry_count, parent, start_state, written, gather_exc, exc,
                   raised, detached, store_vars, generation_vars, extraction>>

EvaluateBatchRaises(e) ==
    /\ pc = "evaluate"
    /\ IterationExcept(e)
    /\ NoLocals
    /\ UNCHANGED <<table, client_writes, detached, store_vars, generation_vars, extraction>>

(* asyncio.gather over save_tasks: the tasks start in the order of the list  *)
(* and each runs until it ends or sleeps between two attempts of            *)
(* create_program. gather returns when every task has ended; it raises the  *)
(* first exception a task raised as soon as the event loop has nothing else *)
(* to run, and does not cancel the tasks that are asleep.                   *)
NextTask(left) == CHOOSE i \in left : \A j \in left : i <= j

(* The programs of the save tasks in is, in the order of the batch.         *)
RECURSIVE ProgramsOf(_, _)
ProgramsOf(ps, is) ==
    IF is = {} THEN <<>>
    ELSE <<ps[NextTask(is)]>> \o ProgramsOf(ps, is \ {NextTask(is)})

(* After a step of a save task, left being the tasks that have not ended    *)
(* and asleep those of them that sleep: the next task runs, or gather       *)
(* returns, or it raises the first exception, which unwinds run_iteration   *)
(* and leaves the sleeping tasks to themselves, or everything left sleeps.  *)
AfterTask(left, asleep, first_exc) ==
    IF left \ asleep = {} /\ first_exc # Null
    THEN /\ IterationExcept(first_exc)
         /\ parent' = Null
         /\ start_state' = Null
         /\ programs' = <<>>
         /\ save_tasks' = {}
         /\ pending' = {}
         /\ backoff' = {}
         /\ orphans' = orphans \o ProgramsOf(programs, asleep)
    ELSE /\ Continue(IF left # {} THEN "persist" ELSE "iteration_done")
         /\ pending' = left
         /\ backoff' = asleep
         /\ UNCHANGED <<parent, start_state, programs, save_tasks, orphans>>

(* One save task: create_program(program) inserts the row and commits.      *)
CreateProgramTask(i) ==
    /\ pc = "persist"
    /\ pending \ backoff # {}
    /\ i = NextTask(pending \ backoff)
    /\ Len(table) < MaxRows
    /\ table' = Insert(table, programs[i])
    /\ written' = [j \in DOMAIN written \cup {i} |->
                      IF j = i THEN NextId(table) ELSE written[j]]
    /\ AfterTask(pending \ {i}, backoff, gather_exc)
    /\ UNCHANGED <<client_writes, gather_exc, store_vars, generation_vars, extraction>>

(* One save task raises an error its own retry policy does not retry: the   *)
(* insert is rolled back, nothing is written.                               *)
CreateProgramTaskRaises(i) ==
    /\ pc = "persist"
    /\ pending \ backoff # {}
    /\ i = NextTask(pending \ backoff)
    /\ gather_exc' = IF gather_exc = Null THEN Some("other") ELSE gather_exc
    /\ AfterTask(pending \ {i}, backoff, gather_exc')
    /\ UNCHANGED <<table, client_writes, written, store_vars, generation_vars, extraction>>

(* The iteration returned: update_progress, then the next iteration or the  *)
(* end of search.                                                           *)
UpdateProgress ==
    /\ pc = "iteration_done"
    /\ iterations_left' = iterations_left - 1
    /\ attempt' = 1
    /\ pc' = IF iterations_left > 1 THEN "sample" ELSE "returned"
    /\ NoLocals
    /\ UNCHANGED <<table, client_writes, params, retry_count, exc, raised,
                   detached, store_vars, generation_vars, extraction>>

SearchNext ==
    \/ \E n \in IterationCounts, s \in SampleCounts, skip \in BOOLEAN :
          Search(n, s, skip)
    \/ SampleParent
    \/ \E e \in ExcKinds : SampleParentRaises(Some(e))
    \/ \E k \in 0..2 : GenerateProgramsBatch(k)
    \/ EvaluateBatch
    \/ \E e \in ExcKinds : EvaluateBatchRaises(Some(e))
    \/ \E i \in pending : CreateProgramTask(i)
    \/ \E i \in pending : CreateProgramTaskRaises(i)
    \/ UpdateProgress

-----------------------------------------------------------------------------
(* The retry loops inside an iteration. _generate_programs_batch carries    *)
(* @retry(wait=...) with no stop and no retry condition: an exception that  *)
(* its own try block does not catch (the formatter calls come before it)    *)
(* starts the call again after a wait, every time. create_program carries   *)
(* tenacity.retry(retry=retry_if_exception_type((OperationalError,          *)
(* InterfaceError, DatabaseError)), wait=...) with no stop: a save task     *)
(* whose insert raises one of these sleeps and calls again, every time.     *)

(* The formatter raises in _generate_programs_batch: tenacity waits.        *)
GenerateProgramsBatchRetried ==
    /\ pc = "generate"
    /\ Continue("generate_wait")
    /\ UNCHANGED <<table, client_writes, locals, detached, store_vars, generation_vars, extraction>>

(* The wait is over: _generate_programs_batch is called again.              *)
GenerateWaitOver ==
    /\ pc = "generate_wait"
    /\ Continue("generate")
    /\ UNCHANGED <<table, client_writes, locals, detached, store_vars, generation_vars, extraction>>

(* The insert of save task i raises an error create_program retries: the    *)
(* task goes to sleep, the event loop runs the next one.                    *)
CreateProgramTaskRetried(i) ==
    /\ pc = "persist"
    /\ pending \ backoff # {}
    /\ i = NextTask(pending \ backoff)
    /\ Len(orphans) + Cardinality(backoff) < MaxDetached
    /\ AfterTask(pending, backoff \cup {i}, gather_exc)
    /\ UNCHANGED <<table, client_writes, written, gather_exc, store_vars, generation_vars, extraction>>

(* Every save task left is asleep; the wait of task i ends first.           *)
CreateProgramWaitOver(i) ==
    /\ pc = "persist"
    /\ pending \ backoff = {}
    /\ i \in backoff
    /\ backoff' = backoff \ {i}
    /\ UNCHANGED <<table, client_writes, pc, iterations_left, params, attempt,
                   retry_count, parent, start_state, programs, save_tasks,
                   pending, written, gather_exc, exc, raised, orphans,
                   store_vars, generation_vars, extraction>>

Without(q, k) == [j \in 1..(Len(q) - 1) |-> IF j < k THEN q[j] ELSE q[j + 1]]

(* A save task that outlived its gather gets its insert through.            *)
OrphanWrites(k) ==
    /\ k \in DOMAIN orphans
    /\ Len(table) < MaxRows
    /\ table' = Insert(table, orphans[k])
    /\ orphans' = Without(orphans, k)
    /\ UNCHANGED <<client_writes, pc, iterations_left, params, attempt,
                   retry_count, locals, exc, raised, backoff, store_vars, generation_vars, extraction>>

(* A save task that outlived its gather ends with an error nobody awaits.   *)
OrphanRaises(k) ==
    /\ k \in DOMAIN orphans
    /\ orphans' = Without(orphans, k)
    /\ UNCHANGED <<table, client_writes, pc, iterations_left, params, attempt,
                   retry_count, locals, exc, raised, backoff, store_vars, generation_vars, extraction>>

RetryNext ==
    \/ SearchNext
    \/ GenerateProgramsBatchRetried
    \/ GenerateWaitOver
    \/ \E i \in pending : CreateProgramTaskRetried(i)
    \/ \E i \in backoff : CreateProgramWaitOver(i)
    \/ \E k \in 1..MaxDetached : OrphanWrites(k)
    \/ \E k \in 1..MaxDetached : OrphanRaises(k)

-----------------------------------------------------------------------------
(* _generate_programs_batch call by call. A choice of a response is taken   *)
(* by what _extract_code_from_choice does with it: "code" is a text one of  *)
(* the strategies recovers code from; "empty" a text that is empty or one   *)
(* line of prose, of which nothing is left once the leading line is         *)
(* dropped; "prose" several lines without code; "malformed" a choice with   *)
(* no text at all. model_calls and responses stay as they are after the     *)
(* batch until the next one starts.                                         *)

Models == {"gpt-4o", "claude-3-5-sonnet"}

Completions == {"code", "empty", "prose", "malformed"}

(* What single_generation returns when llm.acall raised.                    *)
NoResponse == "None"

(* "gpt" in generation_params.model or 'o1' in generation_params.model and  *)
(* hasattr(self.llm, "acall")                                               *)
Native(model) == model \in {"gpt-4o", "o1-mini"}

(* chain_of_thoughts: the text between triple quotes, the last resort of    *)
(* _extract_code_from_choice.                                               *)
Fallback == "docstring"

(* The code _extract_code_from_choice returns for a choice: the text or the *)
(* part of it that compiles, or in the end chain_of_thoughts; it raises      *)
(* when the choice has neither message.content nor text.                    *)
ExtractCodeFromChoice(choice) ==
    CASE choice = "code" -> Some("a")
      [] choice = "empty" -> Some("")
      [] choice = "prose" -> Some(Fallback)
      [] OTHER -> Null

(* _create_program / the loop of _process_openai_response: a Program of the *)
(* version when the code is not empty ("if not code: return None").         *)
HasCode(choice) == ExtractCodeFromChoice(choice) \notin {Null, Some("")}

(* The responses that become programs, in the order of the responses.       *)
RECURSIVE ProgramsFrom(_)
ProgramsFrom(rs) ==
    IF rs = <<>> THEN <<>>
    ELSE LET rest == ProgramsFrom(SubSeq(rs, 1, Len(rs) - 1))
             last == rs[Len(rs)]
         IN IF last # NoResponse /\ HasCode(last)
            THEN Append(rest, NewProgram(Get(ExtractCodeFromChoice(last)),
                                         DefaultVersion))
            ELSE rest

(* Generated with a batch that is lost when one call fails.                 *)
GeneratedAllOrNothing(rs) ==
    IF \E i \in DOMAIN rs :
          rs[i] = NoResponse \/ ExtractCodeFromChoice(rs[i]) = Null
    THEN <<>>
    ELSE ProgramsFrom(rs)

(* What _generate_programs_batch returns for the responses: a choice that   *)
(* makes the extraction raise is caught by "except Exception" around the    *)
(* whole batch, which returns [].                                           *)
Generated(rs) ==
    IF \E i \in DOMAIN rs : rs[i] # NoResponse /\ ExtractCodeFromChoice(rs[i]) = Null
    THEN <<>>
    ELSE ProgramsFrom(rs)

(* run_iteration after the batch, evaluating whatever came back.            *)
AfterGenerationAlways(progs) == "evaluate"

(* if not programs: return *)
AfterGeneration(progs) == IF progs = <<>> THEN "iteration_done" ELSE "evaluate"

(* What a batch step leaves alone.                                          *)
batch_frame ==
    <<table, client_writes, iterations_left, params, attempt, retry_count,
      parent, start_state, save_tasks, pending, written, gather_exc, exc,
      raised, detached, store_vars, llm_model, extraction>>

(* The model takes n samples: one llm.acall(n_samples=n) that returns n     *)
(* choices.                                                                 *)
Acall ==
    /\ pc = "generate"
    /\ Native(llm_model)
    /\ model_calls' = <<samples_per_iteration>>
    /\ responses' \in [1..samples_per_iteration -> Completions]
    /\ pc' = "process"
    /\ UNCHANGED <<programs, batch_frame>>

(* The call raises: there is no response to take choices from.             *)
AcallRaises ==
    /\ pc = "generate"
    /\ Native(llm_model)
    /\ model_calls' = <<samples_per_iteration>>
    /\ responses' = <<NoResponse>>
    /\ pc' = "process"
    /\ UNCHANGED <<programs, batch_frame>>

(* _generate_parallel: gather over n single_generation coroutines.          *)
GenerateParallel ==
    /\ pc = "generate"
    /\ ~Native(llm_model)
    /\ model_calls' = <<>>
    /\ responses' = <<>>
    /\ pc' = "gather"
    /\ UNCHANGED <<programs, batch_frame>>

(* Gathered with a gather that returns at the first response.               *)
GatheredAtFirst(rs) == "process"

(* Where the gather stands once rs responses are in.                        *)
Gathered(rs) == IF Len(rs) = samples_per_iteration THEN "process" ELSE "gather"

(* single_generation: llm.acall(n_samples=1) returns one choice.            *)
SingleGeneration ==
    /\ pc = "gather"
    /\ Len(responses) < samples_per_iteration
    /\ model_calls' = Append(model_calls, 1)
    /\ \E choice \in Completions : responses' = Append(responses, choice)
    /\ pc' = Gathered(responses')
    /\ UNCHANGED <<programs, batch_frame>>

(* single_generation: llm.acall raises, the coroutine returns None.         *)
SingleGenerationFails ==
    /\ pc = "gather"
    /\ Len(responses) < samples_per_iteration
    /\ model_calls' = Append(model_calls, 1)
    /\ responses' = Append(responses, NoResponse)
    /\ pc' = Gathered(responses')
    /\ UNCHANGED <<programs, batch_frame>>

(* The responses are turned into programs, the batch returns, and           *)
(* run_iteration gives every program the parent's id.                       *)
ProcessResponses ==
    /\ pc = "process"
    /\ programs' = [i \in DOMAIN Generated(responses) |->
                       WithParent(Generated(responses)[i], parent)]
    /\ pc' = AfterGeneration(programs')
    /\ UNCHANGED <<model_calls, responses, batch_frame>>

BatchNext ==
    \/ \E s \in SampleCounts : Search(1, s, FALSE)
    \/ SampleParent
    \/ Acall
    \/ AcallRaises
    \/ GenerateParallel
    \/ SingleGeneration
    \/ SingleGenerationFails
    \/ ProcessResponses
    \/ EvaluateBatch
    \/ \E e \in ExcKinds : EvaluateBatchRaises(Some(e))
    \/ \E i \in pending : CreateProgramTask(i)
    \/ \E i \in pending : CreateProgramTaskRaises(i)
    \/ UpdateProgress

-----------------------------------------------------------------------------
(* Other clients of the store: create_program and update_program called     *)
(* directly.                                                                *)

BaseProgram ==
    [NewProgram("a", DefaultVersion) EXCEPT
        !.state = Some("s1"), !.value = Some(1), !.advantage = Some(1)]

(* The programs a client passes to create_program.                          *)
ClientPrograms ==
    {BaseProgram}
    \cup {[BaseProgram EXCEPT !.parent_id = Some(i)] : i \in 1..MaxRows}
    \cup {[BaseProgram EXCEPT !.depth = Rat(d)] : d \in ClientDepths}
    \cup {[BaseProgram EXCEPT !.state = Null],
          [BaseProgram EXCEPT !.value = Null],
          [BaseProgram EXCEPT !.advantage = Null],
          [BaseProgram EXCEPT !.version = DefaultVersion + 1],
          [BaseProgram EXCEPT !.code = "b"]}

(* create_program(program): INSERT ... RETURNING id, commit.                *)
CreateProgram(p) ==
    /\ Idle
    /\ client_writes < MaxClientWrites
    /\ Len(table) < MaxRows
    /\ table' = Insert(table, p)
    /\ client_writes' = client_writes + 1
    /\ UNCHANGED <<pc, iterations_left, params, attempt, retry_count, locals,
                   exc, raised, detached, store_vars, generation_vars, extraction>>

(* The single-column updates a client passes to update_program.             *)
ClientUpdates ==
    {[col |-> "parent_id", val |-> v] :
        v \in {Null} \cup {Some(i) : i \in 1..MaxRows}}
    \cup {[col |-> "state_json", val |-> v] : v \in {Null} \cup States}
    \cup {[col |-> "advantage", val |-> v] : v \in {Null} \cup Advantages}

(* UPDATE programs SET col = val WHERE id = program_id                      *)
Updated(t, id, u) ==
    [i \in DOMAIN t |->
        IF i # id THEN t[i]
        ELSE IF u.col = "parent_id" THEN [t[i] EXCEPT !.parent_id = u.val]
        ELSE IF u.col = "state_json" THEN [t[i] EXCEPT !.state_json = u.val]
        ELSE [t[i] EXCEPT !.advantage = u.val]]

UpdateProgram(id, u) ==
    /\ Idle
    /\ client_writes < MaxClientWrites
    /\ id \in DOMAIN table
    /\ table' = Updated(table, id, u)
    /\ client_writes' = client_writes + 1
    /\ UNCHANGED <<pc, iterations_left, params, attempt, retry_count, locals,
                   exc, raised, detached, store_vars, generation_vars, extraction>>

ClientNext ==
    \/ \E p \in ClientPrograms : CreateProgram(p)
    \/ \E id \in 1..MaxRows, u \in ClientUpdates : UpdateProgram(id, u)

-----------------------------------------------------------------------------
(* The store client PostgresDBClient as the threads of its callers use it.  *)
(* A call is a record: the operation, where it stands, its argument, the    *)
(* attempt number tenacity counts, the connection of this attempt ("none",  *)
(* "used", "returned" to the pool, "closed") and the pool it came from,     *)
(* whether putconn raised, the exception raised in this attempt, and what   *)
(* the caller got.                                                          *)

Callers == {1, 2}

NoOutcome == [kind |-> "none", val |-> <<>>]
Returned(v) == [kind |-> "returned", val |-> v]
Raised(e) == [kind |-> "raised", val |-> <<e>>]

NoCall ==
    [op |-> "none", pc |-> "idle", arg |-> Null, tries |-> 0, conn |-> "none",
     conn_pool |-> 0, put_failed |-> FALSE, err |-> Null, outcome |-> NoOutcome,
     strength |-> Null, weights |-> <<>>]

(* The operations that reach the store through get_connection.              *)
ReadOps ==
    {"get_beam_heads", "version_exists", "get_version_metadata",
     "get_all_program_rewards", "get_largest_version"}

DataOps == ReadOps \cup {"create_program", "sample_parent"}

(* The exception classes of psycopg2 with their base classes (DB-API).      *)
Bases(e) ==
    CASE e = "OperationalError" -> {"OperationalError", "DatabaseError", "Error"}
      [] e = "IntegrityError" -> {"IntegrityError", "DatabaseError", "Error"}
      [] e = "InterfaceError" -> {"InterfaceError", "Error"}
      [] OTHER -> {e}

(* retry_if_exception_type(...) of the tenacity decorator of each operation. *)
RetryTypes(op) ==
    CASE op = "create_program" ->
            {"OperationalError", "InterfaceError", "DatabaseError"}
      [] op \in {"sample_parent", "get_all_program_rewards",
                 "get_largest_version"} ->
            {"OperationalError", "InterfaceError"}
      [] OTHER -> {}

(* Whether tenacity calls the operation again after exception e left it:    *)
(* none of the decorators of the store has a stop, so the attempt number    *)
(* plays no part.                                                           *)
StoreRetried(op, e, tries) == Bases(e) \cap RetryTypes(op) # {}

(* What the except clause of a read operation returns.                      *)
EmptyResult(op) == IF op = "version_exists" THEN <<FALSE>> ELSE <<>>

(* The exception that leaves the except clause of an operation that raises. *)
(* create_program first calls conn.rollback(): conn is unbound when         *)
(* get_connection raised before it yielded, and a closed connection raises  *)
(* InterfaceError.                                                          *)
Leaves(call) ==
    IF call.op # "create_program" THEN Get(call.err)
    ELSE IF call.conn = "none" THEN "UnboundLocalError"
    ELSE IF call.conn = "closed" THEN "InterfaceError"
    ELSE Get(call.err)


-----------------------------------------------------------------------------
(* What the queries of the operations compute on a table t.                 *)

Min(a, b) == IF a <= b THEN a ELSE b

ValueOf(t, i) == Get(t[i].value)

(* WHERE version = %s AND state_json IS NOT NULL AND value IS NOT NULL      *)
EvaluatedRows(t, version) ==
    {i \in DOMAIN t : /\ t[i].version = version
                      /\ t[i].state_json # Null
                      /\ t[i].value # Null}

(* SELECT DISTINCT ON (depth) * ... ORDER BY depth, value DESC: for every   *)
(* depth one row of the highest value of that depth; which of several       *)
(* equal ones is not determined.                                            *)
ProgramsByDepth(t, E) ==
    {P \in SUBSET E :
        /\ \A i \in E : \E j \in P : t[j].depth = t[i].depth
        /\ \A i, j \in P : t[i].depth = t[j].depth => i = j
        /\ \A j \in P : \A i \in E :
              t[i].depth = t[j].depth => ValueOf(t, i) <= ValueOf(t, j)}

(* Top without the LIMIT.                                                   *)
TopUnlimited(t, S, n) == {S}

(* ORDER BY value DESC LIMIT n over the rows S: the sets it may keep.       *)
Top(t, S, n) ==
    {T \in SUBSET S :
        /\ Cardinality(T) = Min(n, Cardinality(S))
        /\ \A i \in T : \A j \in S \ T : ValueOf(t, i) >= ValueOf(t, j)}

(* ORDER BY value DESC over the rows S: the orders it may give.             *)
Descending(t, S) ==
    {q \in [1..Cardinality(S) -> S] :
        /\ \A a, b \in DOMAIN q : a # b => q[a] # q[b]
        /\ \A a, b \in DOMAIN q : a < b => ValueOf(t, q[a]) >= ValueOf(t, q[b])}

(* value_focused without a row in it.                                       *)
ValueFocusedLimitNone(beam_width) == 0

(* The LIMIT of value_focused: beam_width * 2.                              *)
ValueFocusedLimit(beam_width) == 2 * beam_width

(* get_beam_heads(version, beam_width): depth_diverse UNION DISTINCT        *)
(* value_focused ORDER BY value DESC LIMIT beam_width, as the ids of the    *)
(* rows in the order returned.                                              *)
BeamHeads(t, version, beam_width) ==
    LET E == EvaluatedRows(t, version)
    IN UNION {UNION {UNION {UNION {Descending(t, F) :
                                     F \in Top(t, DD \cup VF, beam_width)} :
                              VF \in Top(t, E, ValueFocusedLimit(beam_width))} :
                       DD \in Top(t, P, beam_width)} :
                P \in ProgramsByDepth(t, E)}

(* SELECT EXISTS(SELECT 1 FROM programs WHERE version = %s)                 *)
VersionExists(t, version) == \E i \in DOMAIN t : t[i].version = version

(* SELECT value FROM programs WHERE value IS NOT NULL [AND version = %s],   *)
(* in the order of the table.                                               *)
RECURSIVE ProgramRewards(_, _)
ProgramRewards(t, version) ==
    IF t = <<>> THEN <<>>
    ELSE LET row == t[Len(t)]
             rest == ProgramRewards(SubSeq(t, 1, Len(t) - 1), version)
         IN IF row.value # Null /\ (version = Null \/ row.version = Get(version))
            THEN Append(rest, Get(row.value)) ELSE rest

(* SELECT MAX(version) FROM programs: NULL on an empty table.               *)
LargestVersion(t) ==
    IF t = <<>> THEN Null
    ELSE Some(CHOOSE v \in {t[i].version : i \in DOMAIN t} :
                 \A i \in DOMAIN t : t[i].version <= v)

(* cur.execute(query, (version)): (version) is the value itself, not a      *)
(* tuple. psycopg2 takes the parameter for each %s by index from the        *)
(* argument: an int cannot be indexed (TypeError), a string of one          *)
(* character gives that character.                                          *)
BindsVersion(arg) == arg.as_str

(* The table, had the statements of sample_parent deleted the row they read.                  *)
SelectedDeleted(t) == SubSeq(t, 1, Len(t) - 1)

(* The table after the statements of sample_parent, which are three         *)
(* SELECTs: the count of the version, the recent window, the row by id.     *)
Selected(t) == t

(* What a data operation returns when no statement of it raises: the       *)
(* possible pairs of the table afterwards and the value returned.           *)
Executed(op, arg, t) ==
    CASE op = "create_program" ->
            {<<Insert(t, arg), Some(NextId(t))>>}
      [] op = "sample_parent" ->
            {<<Selected(t), r>> : r \in SampleParentResults(t, arg.version)}
      [] op = "get_beam_heads" ->
            {<<t, q>> : q \in BeamHeads(t, arg.version, arg.beam_width)}
      [] op = "version_exists" ->
            {<<t, <<VersionExists(t, arg.version)>> >>}
      [] op = "get_version_metadata" ->
            {<<t, IF VersionExists(t, arg.version) THEN <<"metadata">> ELSE <<>> >>}
      [] op = "get_all_program_rewards" ->
            {<<t, ProgramRewards(t, arg.version_filter)>>}
      [] op = "get_largest_version" ->
            {<<t, LargestVersion(t)>>}


-----------------------------------------------------------------------------
(* The steps of a call of the store client by caller c.                     *)

(* Everything of the orchestrator.                                         *)
search_vars ==
    <<client_writes, pc, iterations_left, params, attempt, retry_count, locals,
      exc, raised, detached, generation_vars>>

(* What a call of the store client leaves alone.                            *)
mcts_vars == <<search_vars, extraction>>

CallIs(c, at) == c \in DOMAIN calls /\ calls[c].pc = at

Becomes(c, call) == calls' = [calls EXCEPT ![c] = call]

(* The arguments the callers pass.                                          *)
StorePrograms ==
    {BaseProgram, [BaseProgram EXCEPT !.advantage = Null]}

Args(op) ==
    CASE op = "create_program" -> StorePrograms
      [] op = "sample_parent" ->
            [version : {DefaultVersion}, as_str : BOOLEAN,
             compression_strength : {Null}]
      [] op = "get_beam_heads" ->
            [version : {DefaultVersion}, beam_width : 1..MaxBeamWidth]
      [] op \in {"version_exists", "get_version_metadata"} ->
            [version : {DefaultVersion, DefaultVersion + 1}]
      [] op = "get_all_program_rewards" ->
            [version_filter : {Null, Some(DefaultVersion)}]
      [] OTHER -> {Null}

(* A caller enters an operation: a data operation starts its first attempt  *)
(* in get_connection, at _ensure_pool.                                      *)
Begin(c, op, arg) ==
    /\ c \in DOMAIN calls
    /\ calls[c].pc \in {"idle", "done"}
    /\ Becomes(c, [NoCall EXCEPT !.op = op, !.arg = arg, !.tries = 1,
                      !.pc = IF op \in DataOps THEN "ensure" ELSE op])
    /\ UNCHANGED <<table, pool, pools_built, lock, mcts_vars>>

(* _ensure_pool: if self._pool is None, outside the lock.                   *)
EnsurePoolCheck(c) ==
    /\ CallIs(c, "ensure")
    /\ Becomes(c, [calls[c] EXCEPT !.pc = IF pool = 0 THEN "lock" ELSE "getconn"])
    /\ UNCHANGED <<table, pool, pools_built, lock, mcts_vars>>

(* with self._lock: the thread gets the lock when it is free.               *)
EnsurePoolLock(c) ==
    /\ CallIs(c, "lock")
    /\ lock = 0
    /\ lock' = c
    /\ Becomes(c, [calls[c] EXCEPT !.pc = "locked"])
    /\ UNCHANGED <<table, pool, pools_built, mcts_vars>>

(* Under the lock: if self._pool is None the pool is constructed; the lock  *)
(* is released.                                                             *)
EnsurePoolBuild(c) ==
    /\ CallIs(c, "locked")
    /\ pool = 0 => pools_built < MaxPools
    /\ IF pool = 0
       THEN /\ pool' = pools_built + 1
            /\ pools_built' = pools_built + 1
       ELSE UNCHANGED <<pool, pools_built>>
    /\ lock' = 0
    /\ Becomes(c, [calls[c] EXCEPT !.pc = "getconn"])
    /\ UNCHANGED <<table, mcts_vars>>

(* Under the lock the constructor of the pool raises (the server cannot be  *)
(* reached): the lock is released, get_connection has no connection yet.    *)
EnsurePoolBuildRaises(c) ==
    /\ CallIs(c, "locked")
    /\ pool = 0
    /\ lock' = 0
    /\ Becomes(c, [calls[c] EXCEPT !.pc = "except",
                                    !.err = Some("OperationalError")])
    /\ UNCHANGED <<table, pool, pools_built, mcts_vars>>

(* conn = self._pool.getconn(): self._pool is None again when cleanup ran   *)
(* in between (AttributeError); conn stays None, the finally has nothing    *)
(* to put back.                                                             *)
GetConn(c) ==
    /\ CallIs(c, "getconn")
    /\ Becomes(c, IF pool = 0
                  THEN [calls[c] EXCEPT !.pc = "except",
                                        !.err = Some("AttributeError")]
                  ELSE [calls[c] EXCEPT !.pc = "execute", !.conn = "used",
                                        !.conn_pool = pool])
    /\ UNCHANGED <<table, pool, pools_built, lock, mcts_vars>>

(* getconn raises: the pool cannot open a connection.                       *)
GetConnRaises(c) ==
    /\ CallIs(c, "getconn")
    /\ pool # 0
    /\ Becomes(c, [calls[c] EXCEPT !.pc = "except",
                                    !.err = Some("OperationalError")])
    /\ UNCHANGED <<table, pool, pools_built, lock, mcts_vars>>

(* Whether the statements of the operation can run through: the connection *)
(* is open, sample_parent binds (version), create_program has room in the   *)
(* table of the model.                                                      *)
CanExecute(call, t) ==
    /\ call.conn = "used"
    /\ call.op = "sample_parent" => BindsVersion(call.arg)
    /\ call.op = "create_program" => Len(t) < MaxStoreRows

(* What sample_parent computed on the way: the strength and the weights.    *)
Sampled(call, t) ==
    IF call.op # "sample_parent" THEN call
    ELSE [call EXCEPT !.strength = Some(CompressionStrength(call.arg, t)),
                      !.weights = Weights(t, call.arg)]

(* The body of the operation under "with self.get_connection() as conn"     *)
(* runs through; the return value waits for the finally of get_connection.  *)
Execute(c) ==
    /\ CallIs(c, "execute")
    /\ CanExecute(calls[c], table)
    /\ \E r \in Executed(calls[c].op, calls[c].arg, table) :
          /\ table' = r[1]
          /\ Becomes(c, [Sampled(calls[c], table) EXCEPT
                            !.pc = "release", !.outcome = Returned(r[2])])
    /\ UNCHANGED <<pool, pools_built, lock, mcts_vars>>

(* The errors a statement of the operation may raise: the server or the     *)
(* network fails (OperationalError); an INSERT violates a constraint        *)
(* (IntegrityError); the parameters of sample_parent do not bind; the       *)
(* connection was closed under the operation (InterfaceError).              *)
Faults(call) ==
    IF call.conn = "closed" THEN {"InterfaceError"}
    ELSE {"OperationalError"}
         \cup (IF call.op = "create_program" THEN {"IntegrityError"} ELSE {})
         \cup (IF call.op = "sample_parent" /\ ~BindsVersion(call.arg)
               THEN {"TypeError"} ELSE {})

StoreErrors == {"OperationalError", "IntegrityError", "InterfaceError", "TypeError"}

(* A statement raises e inside the with block: nothing is committed.        *)
ExecuteRaises(c, e) ==
    /\ CallIs(c, "execute")
    /\ e \in Faults(calls[c])
    /\ Becomes(c, [calls[c] EXCEPT !.pc = "release", !.err = Some(e)])
    /\ UNCHANGED <<table, pool, pools_built, lock, mcts_vars>>

(* Where the call goes after the finally of get_connection.                 *)
AfterRelease(call) ==
    [call EXCEPT !.pc = IF call.err = Null THEN "done" ELSE "except"]

(* self._pool.putconn(conn, close=True) without the closing.                *)
PutConnCloseKept(call) == [call EXCEPT !.put_failed = TRUE]

(* self._pool.putconn(conn, close=True): the connection is closed and       *)
(* dropped from the pool.                                                   *)
PutConnClose(call) == [call EXCEPT !.put_failed = TRUE, !.conn = "closed"]

(* finally: self._pool.putconn(conn) puts the connection back.              *)
PutConn(c) ==
    /\ CallIs(c, "release")
    /\ pool # 0 /\ pool = calls[c].conn_pool
    /\ Becomes(c, AfterRelease([calls[c] EXCEPT !.conn = "returned"]))
    /\ UNCHANGED <<table, pool, pools_built, lock, mcts_vars>>

(* finally: self._pool.putconn(conn) raises. While the pool of the          *)
(* connection is the pool of the client (the connection is broken), the    *)
(* second putconn, with close=True, closes and drops it. When cleanup has   *)
(* closed that pool (self._pool is None, or a new pool that does not know   *)
(* the connection) the second putconn raises too and is passed over;        *)
(* closeall has closed the connection.                                      *)
PutConnRaises(c) ==
    /\ CallIs(c, "release")
    /\ Becomes(c, AfterRelease(IF pool # 0 /\ pool = calls[c].conn_pool
                               THEN PutConnClose(calls[c])
                               ELSE [calls[c] EXCEPT !.put_failed = TRUE]))
    /\ UNCHANGED <<table, pool, pools_built, lock, mcts_vars>>

(* except Exception as e: a read operation reports and returns its empty    *)
(* result; the others raise, and tenacity calls again after a wait or lets  *)
(* the exception out.                                                       *)
Except(c) ==
    /\ CallIs(c, "except")
    /\ LET call == calls[c]
       IN Becomes(c,
            IF call.op \in ReadOps
            THEN [call EXCEPT !.pc = "done",
                              !.outcome = Returned(EmptyResult(call.op))]
            ELSE IF StoreRetried(call.op, Leaves(call), call.tries)
            THEN [call EXCEPT !.pc = "wait", !.err = Some(Leaves(call))]
            ELSE [call EXCEPT !.pc = "done", !.err = Some(Leaves(call)),
                              !.outcome = Raised(Leaves(call))])
    /\ UNCHANGED <<table, pool, pools_built, lock, mcts_vars>>

(* The wait of tenacity is over: the next attempt starts in get_connection. *)
WaitOver(c) ==
    /\ CallIs(c, "wait")
    /\ Becomes(c, [calls[c] EXCEPT !.pc = "ensure",
                                    !.tries = Min(calls[c].tries + 1, MaxTries),
                                    !.conn = "none", !.conn_pool = 0,
                                    !.put_failed = FALSE, !.err = Null,
                                    !.outcome = NoOutcome])
    /\ UNCHANGED <<table, pool, pools_built, lock, mcts_vars>>

(* PostgresDBClient.initialize: with a pool there is nothing to do; without *)
(* one, "async with self._lock" is entered on a threading.Lock, which has   *)
(* no __aenter__: the statement raises before the pool is constructed.      *)
Initialize(c) ==
    /\ CallIs(c, "initialize")
    /\ Becomes(c, [calls[c] EXCEPT !.pc = "done",
                      !.outcome = IF pool = 0 THEN Raised("TypeError")
                                  ELSE Returned(<<>>)])
    /\ UNCHANGED <<table, pool, pools_built, lock, mcts_vars>>

(* cleanup: if self._pool is not None, outside the lock.                    *)
CleanupCheck(c) ==
    /\ CallIs(c, "cleanup")
    /\ Becomes(c, IF pool = 0
                  THEN [calls[c] EXCEPT !.pc = "done", !.outcome = Returned(<<>>)]
                  ELSE [calls[c] EXCEPT !.pc = "cleanup_lock"])
    /\ UNCHANGED <<table, pool, pools_built, lock, mcts_vars>>

CleanupLock(c) ==
    /\ CallIs(c, "cleanup_lock")
    /\ lock = 0
    /\ lock' = c
    /\ Becomes(c, [calls[c] EXCEPT !.pc = "cleanup_locked"])
    /\ UNCHANGED <<table, pool, pools_built, mcts_vars>>

(* Under the lock: closeall closes every connection of the pool, those in   *)
(* use too, and self._pool becomes None.                                    *)
CleanupClose(c) ==
    /\ CallIs(c, "cleanup_locked")
    /\ calls' = [d \in DOMAIN calls |->
                   IF d = c
                   THEN [calls[d] EXCEPT !.pc = "done", !.outcome = Returned(<<>>)]
                   ELSE IF pool # 0 /\ calls[d].conn = "used"
                           /\ calls[d].conn_pool = pool
                   THEN [calls[d] EXCEPT !.conn = "closed"]
                   ELSE calls[d]]
    /\ pool' = 0
    /\ lock' = 0
    /\ UNCHANGED <<table, pools_built, mcts_vars>>

(* The steps of a call in flight of caller c.                               *)
CallNext(c) ==
    \/ EnsurePoolCheck(c)
    \/ EnsurePoolLock(c)
    \/ EnsurePoolBuild(c)
    \/ EnsurePoolBuildRaises(c)
    \/ GetConn(c)
    \/ GetConnRaises(c)
    \/ Execute(c)
    \/ \E e \in StoreErrors : ExecuteRaises(c, e)
    \/ PutConn(c)
    \/ PutConnRaises(c)
    \/ Except(c)
    \/ WaitOver(c)

(* One caller uses every data operation.                                    *)
StoreNext ==
    \/ \E op \in DataOps : \E arg \in Args(op) : Begin(1, op, arg)
    \/ CallNext(1)

(* Two threads use the client from its construction on: a read, a write    *)
(* and initialize.                                                          *)
FirstUseOps == {"get_largest_version", "create_program", "initialize"}

FirstUseNext ==
    \E c \in Callers :
        \/ \E op \in FirstUseOps : \E arg \in Args(op) : Begin(c, op, arg)
        \/ CallNext(c)
        \/ Initialize(c)

(* The same with cleanup, which closes the pool under the other thread.     *)
PoolOps == FirstUseOps \cup {"cleanup"}

PoolNext ==
    \E c \in Callers :
        \/ \E op \in PoolOps : \E arg \in Args(op) : Begin(c, op, arg)
        \/ CallNext(c)
        \/ Initialize(c)
        \/ CleanupCheck(c)
        \/ CleanupLock(c)
        \/ CleanupClose(c)

(* The save tasks of a batch: asyncio.gather over save_tasks runs the      *)
(* create_program coroutines on the event loop of search, one thread. A     *)
(* coroutine keeps the thread until it awaits; create_program has no await  *)
(* in its body, so the only point where it gives way is the sleep of        *)
(* tenacity between two attempts.                                           *)

(* Coroutines that would give way at every statement, as threads do.        *)
OnThreads(c) == TRUE

(* Whether the loop can run a step of coroutine c: no other coroutine is    *)
(* between two of its suspension points.                                    *)
OnLoop(c) ==
    \A d \in DOMAIN calls \ {c} : calls[d].pc \in {"idle", "wait", "done"}

LoopNext ==
    \E c \in Callers :
        \/ OnLoop(c) /\ \E arg \in Args("create_program") :
                           Begin(c, "create_program", arg)
        \/ OnLoop(c) /\ EnsurePoolCheck(c)
        \/ OnLoop(c) /\ EnsurePoolLock(c)
        \/ OnLoop(c) /\ EnsurePoolBuild(c)
        \/ OnLoop(c) /\ EnsurePoolBuildRaises(c)
        \/ OnLoop(c) /\ GetConn(c)
        \/ OnLoop(c) /\ GetConnRaises(c)
        \/ OnLoop(c) /\ Execute(c)
        \/ OnLoop(c) /\ \E e \in StoreErrors : ExecuteRaises(c, e)
        \/ OnLoop(c) /\ PutConn(c)
        \/ OnLoop(c) /\ PutConnRaises(c)
        \/ OnLoop(c) /\ Except(c)
        \/ OnLoop(c) /\ WaitOver(c)

-----------------------------------------------------------------------------
(* The state after construction: MCTS.__init__ (retry_count = 0), on a      *)
(* store that is empty or holds a row an earlier run of another version     *)
(* left.                                                                    *)

OtherRunRow ==
    RowOf([BaseProgram EXCEPT !.version = DefaultVersion + 1])

SeedTables == {<<>>, <<OtherRunRow>>}

ConstructedWith(model) ==
    /\ llm_model = model
    /\ model_calls = <<>>
    /\ responses = <<>>
    /\ extraction = NoExtraction
    /\ client_writes = 0
    /\ pc = "idle"
    /\ iterations_left = 0
    /\ samples_per_iteration = 1
    /\ skip_failures = FALSE
    /\ attempt = 1
    /\ retry_count = 0
    /\ parent = Null
    /\ start_state = Null
    /\ programs = <<>>
    /\ save_tasks = {}
    /\ pending = {}
    /\ written = <<>>
    /\ gather_exc = Null
    /\ exc = Null
    /\ raised = Null
    /\ backoff = {}
    /\ orphans = <<>>
    /\ pool = 0
    /\ pools_built = 0
    /\ lock = 0

Constructed == ConstructedWith("gpt-4o")

Init ==
    /\ table \in SeedTables
    /\ calls = <<>>
    /\ Constructed

(* The rows a store may hold when the client is called: evaluated programs  *)
(* of two depths and three values, and rows that lack a value, a state, an  *)
(* advantage, or belong to another version.                                 *)
StoreRows ==
    {[RowOf(BaseProgram) EXCEPT !.depth = Rat(d), !.value = Some(v)] :
        d \in {0, 1}, v \in 1..3}
    \cup {[RowOf(BaseProgram) EXCEPT !.value = Null],
          [RowOf(BaseProgram) EXCEPT !.state_json = Null],
          [RowOf(BaseProgram) EXCEPT !.advantage = Null],
          OtherRunRow}

StoreTables == UNION {[1..n -> StoreRows] : n \in 0..MaxStoreRows}

(* A client constructed on a store that holds some rows, before any call.   *)
StoreInit ==
    /\ table \in StoreTables
    /\ calls = [c \in Callers |-> NoCall]
    /\ Constructed

(* A client constructed on a store with room for one more row, before any  *)
(* call.                                                                    *)
PoolInit ==
    /\ table = [i \in 1..(MaxStoreRows - 1) |-> RowOf(BaseProgram)]
    /\ calls = [c \in Callers |-> NoCall]
    /\ Constructed

-----------------------------------------------------------------------------
(* PythonParser. A text is the sequence of its lines, a line one of: a      *)
(* statement that parses alone ("x = 1"), prose that does not ("hello       *)
(* world"), prose with a triple quote in it, a fence with or without the    *)
(* python tag, an empty line. What the parser writes adds comment lines     *)
(* and lines that hold a triple quote alone. The empty string is <<>>.      *)

MaxLines == 6

LineKinds == {"code", "prose", "quoted", "fence", "fence_py", "blank"}

Fences == {"fence", "fence_py"}

DocQuote == "\"\"\""

Comment(l) == "# " \o l

Texts == UNION {[1..n -> LineKinds] : n \in 1..MaxLines}

(* ast.parse over the lines from i on, inside a triple-quoted string or not. *)
RECURSIVE ParsesFrom(_, _, _)
ParsesFrom(ls, i, in_string) ==
    IF i > Len(ls) THEN ~in_string
    ELSE IF in_string
         THEN ls[i] # "quoted" /\ ParsesFrom(ls, i + 1, ls[i] # DocQuote)
         ELSE IF ls[i] = DocQuote THEN ParsesFrom(ls, i + 1, TRUE)
         ELSE /\ ls[i] \in {"code", "marker", "blank",
                          Comment("prose"), Comment("quoted")}
              /\ ParsesFrom(ls, i + 1, FALSE)

(* is_valid_python(code): ast.parse does not raise.                         *)
is_valid_python(ls) == ParsesFrom(ls, 1, FALSE)

(* str.strip() and clean_chunk: the empty lines at both ends go.            *)
RECURSIVE clean_chunk(_)
clean_chunk(ls) ==
    IF ls = <<>> THEN <<>>
    ELSE IF Head(ls) = "blank" THEN clean_chunk(Tail(ls))
    ELSE IF ls[Len(ls)] = "blank" THEN clean_chunk(SubSeq(ls, 1, Len(ls) - 1))
    ELSE ls

(* The first fence of ls at or after line i, 0 if there is none.            *)
NextFence(ls, i) ==
    IF \E j \in i..Len(ls) : ls[j] \in Fences
    THEN CHOOSE j \in i..Len(ls) :
            /\ ls[j] \in Fences
            /\ \A k \in i..(j - 1) : ls[k] \notin Fences
    ELSE 0

(* re.finditer of the fence pattern from line i on: the fences pair up in   *)
(* the order they stand, and group(1) is what stands between a pair.         *)
RECURSIVE Matches(_, _)
Matches(ls, i) ==
    LET open == NextFence(ls, i)
        close == IF open = 0 THEN 0 ELSE NextFence(ls, open + 1)
    IN IF close = 0 THEN <<>>
       ELSE <<SubSeq(ls, open + 1, close - 1)>> \o Matches(ls, close + 1)

(* '\n\n'.join(blocks) *)
RECURSIVE Joined(_)
Joined(blocks) ==
    IF Len(blocks) = 0 THEN <<>>
    ELSE IF Len(blocks) = 1 THEN blocks[1]
    ELSE blocks[1] \o <<"blank">> \o Joined(Tail(blocks))

Stripped(blocks) == [k \in DOMAIN blocks |-> clean_chunk(blocks[k])]

(* "if code and PythonParser.is_valid_python(code)" without the test of      *)
(* code.                                                                    *)
CollectedEmpty(code) == is_valid_python(code)

(* if code and PythonParser.is_valid_python(code): code_blocks.append(code) *)
Collected(code) == code # <<>> /\ is_valid_python(code)

(* code_blocks of extract_all_backtick_blocks.                              *)
CodeBlocks(content) == SelectSeq(Stripped(Matches(content, 1)), Collected)

(* extract_all_backtick_blocks(content): the join of the blocks collected,  *)
(* None when there is none or the join does not parse.                      *)
extract_all_backtick_blocks(content) ==
    LET code_blocks == CodeBlocks(content)
    IN IF code_blocks # <<>> /\ is_valid_python(Joined(code_blocks))
       THEN Some(Joined(code_blocks))
       ELSE Null

(* content.replace("```python", "").replace("```", ""): a fence line        *)
(* becomes an empty line.                                                   *)
WithoutFences(content) ==
    [k \in DOMAIN content |->
        IF content[k] \in Fences THEN "blank" ELSE content[k]]

(* content.split('\n\n') with the empty chunks left out, as the loop of     *)
(* extract_all_valid_python_chunks skips them: the runs of lines between     *)
(* empty lines.                                                             *)
RECURSIVE Chunks(_)
Chunks(ls) ==
    LET body == clean_chunk(ls)
    IN IF body = <<>> THEN <<>>
       ELSE LET end == IF \E j \in DOMAIN body : body[j] = "blank"
                       THEN (CHOOSE j \in DOMAIN body :
                                /\ body[j] = "blank"
                                /\ \A k \in 1..(j - 1) : body[k] # "blank") - 1
                       ELSE Len(body)
            IN <<SubSeq(body, 1, end)>> \o Chunks(SubSeq(body, end + 1, Len(body)))

(* wrap_as_comment(text): one line becomes a comment, several a docstring.  *)
wrap_as_comment(chunk) ==
    IF Len(chunk) = 1 THEN <<Comment(chunk[1])>>
    ELSE <<DocQuote>> \o chunk \o <<DocQuote>>

(* extract_all_valid_python_chunks(content) *)
extract_all_valid_python_chunks(content) ==
    LET chunks == Chunks(content)
        processed_chunks ==
            [k \in DOMAIN chunks |->
                IF is_valid_python(chunks[k]) THEN chunks[k]
                ELSE wrap_as_comment(chunks[k])]
    IN IF processed_chunks # <<>> /\ is_valid_python(Joined(processed_chunks))
       THEN Some(Joined(processed_chunks))
       ELSE Null

(* The strategy extract_code goes to when one has given nothing, skipping   *)
(* the fenced blocks.                                                       *)
NextStrategySkipping(at) == "chunks"

(* The strategy extract_code goes to when the one at hand has given nothing. *)
NextStrategy(at) == IF at = "whole" THEN "backtick" ELSE "chunks"

(* extract_code(choice) is called with the text of the choice; the method   *)
(* is static and keeps nothing, so one call stands for every call.          *)
ExtractCode ==
    /\ extraction.pc = "idle"
    /\ \E text \in Texts :
          extraction' = [NoExtraction EXCEPT !.pc = "whole", !.choice = text,
                                            !.content = text]
    /\ UNCHANGED <<table, store_vars, search_vars>>

(* The extraction takes a step e, which leaves everything else alone.       *)
Extracts(e) ==
    /\ extraction' = [e EXCEPT !.consulted = extraction.consulted \cup {extraction.pc}]
    /\ UNCHANGED <<table, store_vars, search_vars>>

(* if PythonParser.is_valid_python(content): return content, content        *)
WholeText ==
    /\ extraction.pc = "whole"
    /\ Extracts(IF is_valid_python(extraction.content)
                THEN [extraction EXCEPT !.pc = "returned",
                                        !.code = Some(extraction.content)]
                ELSE [extraction EXCEPT !.pc = NextStrategy("whole")])

(* backtick_code = extract_all_backtick_blocks(content); returned if it is   *)
(* not empty.                                                               *)
BacktickBlocks ==
    /\ extraction.pc = "backtick"
    /\ LET backtick_code == extract_all_backtick_blocks(extraction.content)
       IN Extracts(IF backtick_code \notin {Null, Some(<<>>)}
                   THEN [extraction EXCEPT !.pc = "returned",
                                           !.code = backtick_code]
                   ELSE [extraction EXCEPT !.pc = NextStrategy("backtick")])

(* The fences are taken out of content, the chunks are processed; without    *)
(* a result extract_code returns None, None.                                *)
ValidPythonChunks ==
    /\ extraction.pc = "chunks"
    /\ LET content == WithoutFences(extraction.content)
           code == extract_all_valid_python_chunks(content)
       IN Extracts(IF code \notin {Null, Some(<<>>)}
                   THEN [extraction EXCEPT !.pc = "returned", !.code = code,
                                           !.content = content]
                   ELSE [extraction EXCEPT !.pc = "returned", !.code = Null,
                                           !.content = <<>>])

ParserNext ==
    \/ ExtractCode
    \/ WholeText
    \/ BacktickBlocks
    \/ ValidPythonChunks

(* One caller samples parents with a fixed or an adaptive strength.         *)
-----------------------------------------------------------------------------
(* MCTS._extract_code_from_choice over the text of a choice, line by line   *)
(* as above; a line may also be the import of factorio_instance, which is   *)
(* a statement that parses.                                                 *)

MaxChoiceLines == 4

Marker == "marker"

ChoiceTexts == UNION {[1..n -> LineKinds \cup {Marker}] : n \in 1..MaxChoiceLines}

(* code.rsplit('\n', 1)[0] + '\n': the last line goes and a line break      *)
(* ends the text; a text of one line keeps it.                              *)
WithoutLastLine(ls) ==
    IF Len(ls) > 1 THEN Append(SubSeq(ls, 1, Len(ls) - 1), "blank")
    ELSE Append(ls, "blank")

(* _verify_response_is_python(content): the text when it compiles, the text *)
(* without its last line when that compiles; Null when the second compile   *)
(* raises.                                                                  *)
verify_response_is_python(ls) ==
    IF is_valid_python(ls) THEN Some(ls)
    ELSE IF is_valid_python(WithoutLastLine(ls)) THEN Some(WithoutLastLine(ls))
    ELSE Null

(* re.findall of the fence pattern, [0][1]: what stands between the first   *)
(* two fences, stripped; Null when there is no match (IndexError).          *)
FirstFenced(ls) ==
    LET open == NextFence(ls, 1)
        close == IF open = 0 THEN 0 ELSE NextFence(ls, open + 1)
    IN IF close = 0 THEN Null
       ELSE Some(clean_chunk(SubSeq(ls, open + 1, close - 1)))

(* "\n".join(content.split("\n")[1:]) *)
WithoutLeadingLine(ls) == SubSeq(ls, 2, Len(ls))

(* The line of the first import of factorio_instance at or after line i,    *)
(* 0 if there is none.                                                      *)
NextMarker(ls, i) ==
    IF \E j \in i..Len(ls) : ls[j] = Marker
    THEN CHOOSE j \in i..Len(ls) :
            ls[j] = Marker /\ \A k \in i..(j - 1) : ls[k] # Marker
    ELSE 0

(* content.split('from factorio_instance import *'): content_split[0] and   *)
(* content_split[1], both stripped; Null when the import is not there        *)
(* (IndexError).                                                            *)
MarkerSplitOf(ls) ==
    LET at == NextMarker(ls, 1)
        next == IF at = 0 THEN 0 ELSE NextMarker(ls, at + 1)
        end == IF next = 0 THEN Len(ls) ELSE next - 1
    IN IF at = 0 THEN Null
       ELSE Some([code |-> clean_chunk(SubSeq(ls, at + 1, end)),
                  text_response |-> clean_chunk(SubSeq(ls, 1, at - 1))])

(* chain_of_thoughts = '"""\n' + content.strip().strip("\"") + '\n"""',     *)
(* content being what the removal of the leading line left.                 *)
ChainOfThoughtsOf(content) ==
    <<DocQuote>> \o clean_chunk(content) \o <<DocQuote>>

(* _extract_code_from_choice(choice) is called with a choice that has a     *)
(* text; the method keeps nothing, so one call stands for every call.       *)
ExtractCodeFromChoiceText ==
    /\ extraction.pc = "idle"
    /\ \E text \in ChoiceTexts :
          extraction' = [NoExtraction EXCEPT !.pc = "verify", !.choice = text,
                                            !.content = text]
    /\ UNCHANGED <<table, store_vars, search_vars>>

(* A step of the extraction: code is returned when there is one, with the   *)
(* text that goes with it, or the next except clause is entered.            *)
Tries(code, content, next_pc) ==
    Extracts(IF code # Null
             THEN [extraction EXCEPT !.pc = "returned", !.code = code,
                                     !.content = content]
             ELSE [extraction EXCEPT !.pc = next_pc])

(* code = self._verify_response_is_python(content); return code, content    *)
VerifyContent ==
    /\ extraction.pc = "verify"
    /\ Tries(verify_response_is_python(extraction.content), extraction.content,
             "fenced")

(* The first fenced block is verified.                                      *)
VerifyFenced ==
    /\ extraction.pc = "fenced"
    /\ LET code == FirstFenced(extraction.content)
       IN Tries(IF code = Null THEN Null ELSE verify_response_is_python(Get(code)),
                extraction.content, "leading")

(* The leading line is dropped from content, for this step and the ones     *)
(* after it, and what is left is verified.                                  *)
VerifyWithoutLeadingLine ==
    /\ extraction.pc = "leading"
    /\ LET content == WithoutLeadingLine(extraction.content)
           code == verify_response_is_python(content)
       IN Extracts(IF code # Null
                   THEN [extraction EXCEPT !.pc = "returned", !.code = code,
                                           !.content = content]
                   ELSE [extraction EXCEPT !.pc = "split", !.content = content])

(* What follows the import is verified and returned with what precedes it.  *)
VerifyAfterMarker ==
    /\ extraction.pc = "split"
    /\ LET content_split == MarkerSplitOf(extraction.content)
       IN IF content_split = Null
          THEN Tries(Null, extraction.content, "chain")
          ELSE Tries(verify_response_is_python(Get(content_split).code),
                     Get(content_split).text_response, "chain")

(* return chain_of_thoughts, content.strip() *)
ChainOfThoughts ==
    /\ extraction.pc = "chain"
    /\ Extracts([extraction EXCEPT
                    !.pc = "returned",
                    !.code = Some(ChainOfThoughtsOf(extraction.content)),
                    !.content = clean_chunk(extraction.content)])

ChoiceNext ==
    \/ ExtractCodeFromChoiceText
    \/ VerifyContent
    \/ VerifyFenced
    \/ VerifyWithoutLeadingLine
    \/ VerifyAfterMarker
    \/ ChainOfThoughts

MaxWindow == 4

SampleArgs ==
    [version : {DefaultVersion}, as_str : BOOLEAN,
     compression_strength : {Null} \cup {Some(h) : h \in 0..2}]

SampleNext ==
    \/ \E arg \in SampleArgs : Begin(1, "sample_parent", arg)
    \/ CallNext(1)

SampleRows ==
    {[RowOf(BaseProgram) EXCEPT !.advantage = a] : a \in {Null, Some(5), Some(7)}}
    \cup {OtherRunRow}

SampleTables == UNION {[1..n -> SampleRows] : n \in 0..MaxWindow}

SampleInit ==
    /\ table \in SampleTables
    /\ calls = [c \in Callers |-> NoCall]
    /\ Constructed

Next == SearchNext \/ ClientNext

(* The orchestrator and the other clients of the store.                     *)
Spec == Init /\ [][Next]_vars

(* The orchestrator alone on the store.                                     *)
SearchSpec == Init /\ [][SearchNext]_vars

(* The orchestrator with the retry loops of generation and persistence.    *)
(* Every call returns or raises in finite time and the event loop runs      *)
(* what is ready: a step that stays possible is taken.                      *)
RetrySpec == Init /\ [][RetryNext]_vars /\ WF_vars(RetryNext)

(* The orchestrator with the model calls of every batch, on either kind of  *)
(* model.                                                                   *)
BatchInit ==
    /\ table \in SeedTables
    /\ calls = <<>>
    /\ \E model \in Models : ConstructedWith(model)

BatchSpec == BatchInit /\ [][BatchNext]_vars

(* The parser is given one text after the other.                            *)
ParserSpec == Init /\ [][ParserNext]_vars

(* _extract_code_from_choice alone, over every text of ChoiceTexts.         *)
ChoiceSpec == Init /\ [][ChoiceNext]_vars

(* One caller samples parents, on stores that differ in the advantages.    *)
SampleSpec == SampleInit /\ [][SampleNext]_vars

(* One caller of the store client, on every store of the model.            *)
StoreSpec == StoreInit /\ [][StoreNext]_vars

(* One caller of the store client; every call returns or raises in finite   *)
(* time and every wait of tenacity ends.                                    *)
StoreFairSpec == PoolInit /\ [][StoreNext]_vars /\ WF_vars(StoreNext)

(* Two threads on one client, from its first use on.                        *)
FirstUseSpec == PoolInit /\ [][FirstUseNext]_vars

(* Two threads on one client, one of which may clean up.                    *)
PoolSpec == PoolInit /\ [][PoolNext]_vars

(* The save tasks of the batches of a search on its event loop.             *)
LoopInit ==
    /\ table \in SeedTables
    /\ calls = [c \in Callers |-> NoCall]
    /\ Constructed

LoopSpec == LoopInit /\ [][LoopNext]_vars

-----------------------------------------------------------------------------
(* Properties.                                                              *)

InIteration == pc \in {"persist", "iteration_done"}

(* C1: in run_iteration an evaluated program is handed to create_program    *)
(* exactly when its state is non-null and (skip_failures is false or its    *)
(* value is non-null); every row the iteration wrote has a state, and a     *)
(* value when skip_failures is true; an iteration that completes has        *)
(* written every program it handed over.                                    *)
C1_SavedIffStateAndValue ==
    /\ (InIteration /\ programs # <<>>) =>
          save_tasks = {i \in DOMAIN programs :
                           /\ programs[i].state # Null
                           /\ (skip_failures = FALSE \/ programs[i].value # Null)}
    /\ InIteration => DOMAIN written \subseteq save_tasks
    /\ \A i \in DOMAIN written :
          /\ table[written[i]].state_json # Null
          /\ skip_failures => table[written[i]].value # Null
    /\ pc = "iteration_done" => DOMAIN written = save_tasks

C1_Witness ==
    /\ pc = "iteration_done"
    /\ skip_failures
    /\ Len(programs) = 2
    /\ DOMAIN written = {2}
    /\ programs[1].state # Null
    /\ programs[1].value = Null

(* C2: every persisted non-root program has depth equal to its parent's     *)
(* persisted depth plus one, and every persisted root has depth 0.          *)
C2_DepthIsParentDepthPlusOne ==
    \A i \in DOMAIN table :
        IF table[i].parent_id = Null
        THEN table[i].depth = Rat(0)
        ELSE /\ Get(table[i].parent_id) \in DOMAIN table
             /\ table[i].depth = PlusOne(table[Get(table[i].parent_id)].depth)

(* C3: every persisted program with a parent_id references a program that   *)
(* was persisted before it and has the same version.                        *)
C3_ParentExistsSameVersion ==
    \A i \in DOMAIN table :
        table[i].parent_id # Null =>
            /\ Get(table[i].parent_id) \in DOMAIN table
            /\ Get(table[i].parent_id) < i
            /\ table[Get(table[i].parent_id)].version = table[i].version

C3_Witness ==
    /\ pc = "iteration_done"
    /\ parent # Null
    /\ \E i \in DOMAIN written : table[written[i]].parent_id = parent

C5_AllOrNothing ==
    \A i \in DOMAIN table :
        \/ /\ table[i].state_json # Null
           /\ table[i].value # Null
           /\ table[i].advantage # Null
        \/ /\ table[i].state_json = Null
           /\ table[i].value = Null
           /\ table[i].advantage = Null

(* C5, amended: every program an iteration persisted has a state, so a      *)
(* value or an advantage is never persisted without a state (a state may be *)
(* persisted without them).                                                 *)
C5_NoValueWithoutState ==
    \A i \in DOMAIN table :
        (table[i].value # Null \/ table[i].advantage # Null) =>
            table[i].state_json # Null

C5_Witness ==
    /\ pc = "iteration_done"
    /\ Len(programs) = 2
    /\ programs[1].state = Null /\ programs[1].value # Null
    /\ DOMAIN written = {2}
    /\ programs[2].advantage = Null

(* Following parent_id from row i reaches a root in at most n steps.        *)
RECURSIVE ReachesRoot(_, _, _)
ReachesRoot(t, i, n) ==
    IF t[i].parent_id = Null THEN TRUE
    ELSE IF n = 0 THEN FALSE
    ELSE /\ Get(t[i].parent_id) \in DOMAIN t
         /\ ReachesRoot(t, Get(t[i].parent_id), n - 1)

(* Every parent reference points to a row created before the child.         *)
ParentsEarlier(t) ==
    \A i \in DOMAIN t :
        t[i].parent_id # Null =>
            Get(t[i].parent_id) \in DOMAIN t /\ Get(t[i].parent_id) < i

SameFields(p, q) ==
    /\ q.code = p.code
    /\ q.parent_id = p.parent_id
    /\ q.version = p.version
    /\ q.value = p.value
    /\ q.advantage = p.advantage
    /\ q.depth = p.depth

(* C7: create_program(p) followed by fetching the row with the returned id  *)
(* yields the code, parent_id, version and numeric fields p had.            *)
C7_RoundTrip ==
    [][\A p \in ClientPrograms :
          CreateProgram(p) =>
              SameFields(p, FromRow(NextId(table), table'[NextId(table)]))]_vars

(* C8: no step removes a program, and a step of search (one that aborts it  *)
(* included) leaves every persisted program as it was.                      *)
C8_Permanent ==
    [][/\ \A i \in DOMAIN table : i \in DOMAIN table'
       /\ client_writes' = client_writes =>
             \A i \in DOMAIN table : table'[i] = table[i]]_vars

C8_Witness ==
    /\ pc = "fatal"
    /\ client_writes = 0
    /\ written = <<>>
    /\ \E i \in DOMAIN table : table[i].version = DefaultVersion

C10_TriggeringExceptionIntact ==
    (pc = "fatal" /\ attempt = stop_after_attempt) => raised = exc

-----------------------------------------------------------------------------
(* C11: every iteration that has started eventually completes or raises:    *)
(* no retry loop around generation or persistence goes on forever.          *)
C11_IterationEnds ==
    (pc \in {"sample", "generate", "generate_wait", "evaluate", "persist"})
        ~> (pc \in {"iteration_done", "returned", "fatal"})

-----------------------------------------------------------------------------
(* C12: a call of create_program or sample_parent under a transient error   *)
(* that persists stops retrying and raises: every such call ends.           *)
C12_StoreRetriesEnd ==
    (calls[1].op \in {"create_program", "sample_parent"} /\ calls[1].pc # "done")
        ~> (calls[1].pc = "done")

(* C13: a constraint violation raised by the insert of create_program       *)
(* reaches the caller at once: the call is in its first attempt and is not  *)
(* put to wait for another one.                                             *)
C13_ConstraintViolationNotRetried ==
    \A c \in DOMAIN calls :
        (calls[c].op = "create_program" /\ calls[c].err = Some("IntegrityError"))
            => (calls[c].pc # "wait" /\ calls[c].tries = 1)

(* C14: a call of any store operation, the reads included, that ended after *)
(* the store raised an error ended by raising, not with a normal result.   *)
C14_StoreErrorSurfaced ==
    \A c \in DOMAIN calls :
        (calls[c].pc = "done" /\ calls[c].err # Null)
            => calls[c].outcome.kind = "raised"

-----------------------------------------------------------------------------
(* C15: under concurrent first use the pool is constructed exactly once:    *)
(* when a caller's use of the client (a data operation or initialize) has   *)
(* ended without an error of the server, one pool has been constructed and  *)
(* it is the pool of the client.                                            *)
C15_PoolConstructedOnce ==
    \A c \in DOMAIN calls :
        (calls[c].pc = "done" /\ calls[c].err = Null)
            => (pools_built = 1 /\ pool = 1)

(* The part of C15 about a second pool: no use of the client constructs a   *)
(* second pool or replaces the first.                                       *)
NoSecondPool == pools_built <= 1 /\ pool = pools_built

-----------------------------------------------------------------------------
(* C16: a store operation that has left get_connection, by return or by     *)
(* exception, holds no connection: its connection went back to the pool or  *)
(* was closed; and a connection whose putconn raised is closed, not put     *)
(* back.                                                                    *)
C16_ConnectionReleased ==
    \A c \in DOMAIN calls :
        /\ calls[c].pc \in {"idle", "done", "except", "wait"}
              => calls[c].conn # "used"
        /\ calls[c].put_failed => calls[c].conn = "closed"

(* An operation ended after putconn raised on a connection of the live      *)
(* pool, and another one left get_connection by an exception with its       *)
(* connection put back.                                                     *)
C16_Witness ==
    /\ calls[1].pc = "done" /\ calls[1].put_failed /\ calls[1].conn = "closed"
    /\ calls[1].conn_pool = pool
    /\ calls[2].pc = "except" /\ calls[2].conn = "returned"

-----------------------------------------------------------------------------
(* C17: what get_beam_heads(version, k) returns has at most k rows, no row  *)
(* twice, and values that never increase along the list.                    *)
C17_BeamHeadsBoundedSorted ==
    \A c \in DOMAIN calls :
        (calls[c].op = "get_beam_heads" /\ calls[c].outcome.kind = "returned")
            => LET q == calls[c].outcome.val
                   k == calls[c].arg.beam_width
               IN /\ Len(q) <= k
                  /\ \A a, b \in DOMAIN q : a # b => q[a] # q[b]
                  /\ \A a, b \in DOMAIN q :
                        a < b => ValueOf(table, q[a]) >= ValueOf(table, q[b])

(* get_beam_heads returned k = 2 rows of different values from a store with *)
(* more than k evaluated programs.                                          *)
C17_Witness ==
    /\ calls[1].op = "get_beam_heads" /\ calls[1].pc = "done"
    /\ calls[1].err = Null
    /\ calls[1].arg.beam_width = 2
    /\ Len(calls[1].outcome.val) = 2
    /\ Cardinality(EvaluatedRows(table, calls[1].arg.version)) > 2
    /\ ValueOf(table, calls[1].outcome.val[1]) > ValueOf(table, calls[1].outcome.val[2])

(* C18: whenever at least k depths have evaluated programs in the version,  *)
(* the rows get_beam_heads(version, k) returns are k rows of k different    *)
(* depths.                                                                  *)
C18_BeamHeadsDepthDiverse ==
    \A c \in DOMAIN calls :
        (/\ calls[c].op = "get_beam_heads" /\ calls[c].pc = "done"
         /\ calls[c].err = Null
         /\ Cardinality({table[i].depth :
                           i \in EvaluatedRows(table, calls[c].arg.version)})
               >= calls[c].arg.beam_width)
            => LET q == calls[c].outcome.val
               IN /\ Len(q) = calls[c].arg.beam_width
                  /\ \A a, b \in DOMAIN q :
                        a # b => table[q[a]].depth # table[q[b]].depth

(* C19: no step of a sample_parent call changes the table, whatever the     *)
(* call ends with: a program, none, or an error.                            *)
C19_SampleParentReadOnly ==
    [][\A c \in DOMAIN calls :
          (calls'[c] # calls[c] /\ calls'[c].op = "sample_parent")
              => table' = table]_vars

(* sample_parent has returned a program of a store that holds programs.     *)
C19_Witness ==
    /\ calls[1].op = "sample_parent" /\ calls[1].pc = "done"
    /\ calls[1].outcome.kind = "returned"
    /\ calls[1].outcome.val # Null
    /\ Len(table) > 0

(* What a finished sample_parent call must have given on the table t: none  *)
(* exactly when the version has no program with an advantage, else a program *)
(* of the recent window.                                                    *)
FromWindow(call, t) ==
    /\ call.outcome.kind = "returned"
    /\ call.outcome.val = Null <=> Eligible(t, call.arg.version) = {}
    /\ call.outcome.val # Null
          => Get(call.outcome.val) \in Recent(t, call.arg.version)

(* C20: a sample_parent(version) call that has ended returned none if and   *)
(* only if the version has no program with a non-null advantage, and        *)
(* otherwise one of the most recent such programs of that version.          *)
C20_SampleParentFromWindow ==
    \A c \in DOMAIN calls :
        (calls[c].op = "sample_parent" /\ calls[c].pc = "done")
            => FromWindow(calls[c], table)

(* The same for the calls whose version binds to the query.                 *)
BoundSampleParentFromWindow ==
    \A c \in DOMAIN calls :
        (/\ calls[c].op = "sample_parent" /\ calls[c].pc = "done"
         /\ BindsVersion(calls[c].arg))
            => FromWindow(calls[c], table)

-----------------------------------------------------------------------------
(* The advantages of the window of the call are all the same.               *)
ZeroVariance(call, t) ==
    \A i, j \in Recent(t, call.arg.version) :
        AdvantageOf(t, i) = AdvantageOf(t, j)

WeightsFollowAdvantage ==
    \A c \in DOMAIN calls :
        (/\ calls[c].op = "sample_parent" /\ calls[c].pc = "done"
         /\ calls[c].outcome.kind = "returned"
         /\ calls[c].strength \notin {Null, Some(0)})
            => \A i, j \in DOMAIN calls[c].weights :
                  AdvantageOf(table, i) < AdvantageOf(table, j)
                      => Get(calls[c].weights[i]) < Get(calls[c].weights[j])

(* C22: with no fixed strength, the strength sample_parent computes is      *)
(* (sin(2 pi c / T) + 1) / 2 for c the number of rows of the version that   *)
(* have an advantage: 1.0 at c = T/4, 0.5 at c = 0, whatever other rows the *)
(* version holds.                                                           *)
C22_AdaptiveStrengthOfEligible ==
    \A c \in DOMAIN calls :
        (/\ calls[c].op = "sample_parent" /\ calls[c].pc = "done"
         /\ calls[c].outcome.kind = "returned"
         /\ calls[c].arg.compression_strength = Null)
            => calls[c].strength =
                  Some(SinQuarter(Cardinality(Eligible(table, calls[c].arg.version))) + 1)

(* The same for the count of all rows of the version.                       *)
AdaptiveStrengthOfStepCount ==
    \A c \in DOMAIN calls :
        (/\ calls[c].op = "sample_parent" /\ calls[c].pc = "done"
         /\ calls[c].outcome.kind = "returned"
         /\ calls[c].arg.compression_strength = Null)
            => calls[c].strength =
                  Some(SinQuarter(StepCount(table, calls[c].arg.version)) + 1)

-----------------------------------------------------------------------------
(* C23: whatever the text, extract_code returns a code string, never None,  *)
(* and the string parses.                                                   *)
C23_ExtractCodeAlwaysParses ==
    extraction.pc = "returned"
        => /\ extraction.code # Null
           /\ is_valid_python(Get(extraction.code))

(* What extract_code does return parses.                                    *)
ReturnedCodeParses ==
    (extraction.pc = "returned" /\ extraction.code # Null)
        => is_valid_python(Get(extraction.code))

(* The blocks of the text that the claim counts: those that parse alone.    *)
ParsingBlocks(content) ==
    SelectSeq(Stripped(Matches(content, 1)), is_valid_python)

(* C26 as stated: a text that does not parse as a whole and has a fenced    *)
(* block that parses alone comes back as the blocks that parse alone, in    *)
(* their order, joined by an empty line, if that join parses.               *)
C26_ParsingBlocksReturned ==
    (/\ extraction.pc = "returned"
     /\ ~is_valid_python(extraction.choice)
     /\ ParsingBlocks(extraction.choice) # <<>>
     /\ is_valid_python(Joined(ParsingBlocks(extraction.choice))))
        => extraction.code = Some(Joined(ParsingBlocks(extraction.choice)))

(* C26 amended: the same for the blocks that parse alone and are not empty  *)
(* once the white space around them is taken off.                           *)
C26_NonEmptyParsingBlocksReturned ==
    (/\ extraction.pc = "returned"
     /\ ~is_valid_python(extraction.choice)
     /\ CodeBlocks(extraction.choice) # <<>>
     /\ is_valid_python(Joined(CodeBlocks(extraction.choice))))
        => /\ extraction.code = Some(Joined(CodeBlocks(extraction.choice)))
           /\ "chunks" \notin extraction.consulted

(* A text with two fenced blocks that parse came back as their join.        *)
C26_Witness ==
    /\ extraction.pc = "returned"
    /\ extraction.choice = <<"fence_py", "code", "fence", "fence", "code", "fence">>
    /\ extraction.code = Some(<<"code", "blank", "code">>)

(* What the strategy s gives on the text: a string, or nothing.             *)
StrategyResult(s, text) ==
    CASE s = "whole" -> IF is_valid_python(text) THEN Some(text) ELSE Null
      [] s = "backtick" -> extract_all_backtick_blocks(text)
      [] s = "chunks" -> extract_all_valid_python_chunks(WithoutFences(text))

StrategyOrder == <<"whole", "backtick", "chunks">>

(* C30: extract_code returns what the first strategy that gives a string    *)
(* gives, in the order whole text, fenced blocks, chunks, and has consulted *)
(* no strategy after it; a text that parses as a whole comes back as it is. *)
C30_FirstStrategyWins ==
    extraction.pc = "returned"
        => \A k \in DOMAIN StrategyOrder :
              (/\ StrategyResult(StrategyOrder[k], extraction.choice) # Null
               /\ \A j \in 1..(k - 1) :
                     StrategyResult(StrategyOrder[j], extraction.choice) = Null)
                  => /\ extraction.code =
                          StrategyResult(StrategyOrder[k], extraction.choice)
                     /\ extraction.consulted = {StrategyOrder[j] : j \in 1..k}

(* A text whose fenced block parses, and whose chunks would have given      *)
(* something else, came back as the block.                                  *)
C30_Witness ==
    /\ extraction.pc = "returned"
    /\ extraction.choice = <<"prose", "fence_py", "code", "fence">>
    /\ extraction.code = Some(<<"code">>)
    /\ extraction.consulted = {"whole", "backtick"}
    /\ extract_all_valid_python_chunks(WithoutFences(extraction.choice))
          = Some(<<Comment("prose"), "blank", "code">>)

-----------------------------------------------------------------------------
(* The batch has come back from _generate_programs_batch.                   *)
BatchReturned == pc \in {"evaluate", "persist", "iteration_done"}

(* C24: no completion of which only the docstring-wrapped text is left is   *)
(* handed to evaluate_batch or persisted.                                   *)
C24_NoFallbackEvaluated ==
    /\ pc \in {"evaluate", "persist"} =>
          \A i \in DOMAIN programs : programs[i].code # Fallback
    /\ \A i \in DOMAIN table : table[i].code # Fallback

(* The responses of the batch that have code in them.                       *)
WithCode(rs) == {i \in DOMAIN rs : rs[i] = "code"}

C27_StepOrder ==
    [][/\ pc' = "generate" => pc \in {"sample", "generate"}
       /\ pc' = "gather" => pc \in {"generate", "gather"}
       /\ pc' = "process" => pc \in {"generate", "gather"}
       /\ pc' = "evaluate" => pc = "process" /\ programs' # <<>>
       /\ pc' = "persist" => pc \in {"evaluate", "persist"}
       /\ table' # table => pc = "persist"]_vars

(* A program was persisted at the end of such a run of steps.               *)
C27_Witness ==
    /\ pc = "iteration_done"
    /\ written # <<>>
    /\ Len(responses) = samples_per_iteration

(* C29: for N samples a model with multi-sample completion gets one call    *)
(* for N samples, any other model N calls for one sample each; at most N    *)
(* programs come of it.                                                     *)
C29_CallsPerBatch ==
    BatchReturned
        => /\ model_calls = IF Native(llm_model)
                            THEN <<samples_per_iteration>>
                            ELSE [i \in 1..samples_per_iteration |-> 1]
           /\ Len(programs) <= samples_per_iteration

(* Both kinds of model have produced a full batch.                          *)
C29_Witness ==
    /\ pc = "evaluate"
    /\ Len(programs) = samples_per_iteration
    /\ ~Native(llm_model)
    /\ model_calls = <<1, 1>>

(* C28: the programs of an iteration, in the batch and in the store, carry  *)
(* the id of the parent sampled in that iteration, none exactly when no      *)
(* parent was sampled; the batch is evaluated from the state of that parent, *)
(* from the initial state exactly when there is none.                       *)
C28_ParentOfTheIteration ==
    pc \in {"evaluate", "persist", "iteration_done"}
        => /\ \A i \in DOMAIN programs : programs[i].parent_id = parent
           /\ \A i \in DOMAIN written : table[written[i]].parent_id = parent
           /\ programs # <<>> =>
                 start_state = IF parent = Null THEN InitialState
                               ELSE table[Get(parent)].state_json

(* A program was persisted under a sampled parent, from whose state the     *)
(* batch was evaluated.                                                     *)
C28_Witness ==
    /\ pc = "iteration_done"
    /\ parent # Null
    /\ written # <<>>
    /\ start_state = table[Get(parent)].state_json
    /\ start_state # InitialState

(* C31: _extract_code_from_choice never raises for a choice with a text and *)
(* what it returns as code always parses, the docstring of the last resort  *)
(* included.                                                                *)
C31_ChoiceCodeAlwaysParses ==
    extraction.pc = "returned" =>
        /\ extraction.code # Null
        /\ is_valid_python(Get(extraction.code))

(* The part of C31 that holds: a choice with a text never makes the         *)
(* extraction raise, and every result but the docstring parses.             *)
ChoiceCodeParsesBeforeChain ==
    extraction.pc = "returned" =>
        /\ extraction.code # Null
        /\ "chain" \notin extraction.consulted
              => is_valid_python(Get(extraction.code))

(* The docstring of the last resort holds the whole text of the choice:     *)
(* violated, the leading line is gone by then.                              *)
ChainWrapsWholeText ==
    (extraction.pc = "returned" /\ "chain" \in extraction.consulted) =>
        Get(extraction.code) = ChainOfThoughtsOf(extraction.choice)

-----------------------------------------------------------------------------
(* C32: retry_count goes up by one on every failed attempt and is reset to  *)
(* 0 exactly when it reaches max_retries, at which point the error leaves   *)
(* search; between attempts it stays within 0..max_retries - 1.             *)
C32_RetryCountResetWhenFatal ==
    [][/\ retry_count' \in 0..(max_retries - 1)
       /\ retry_count' # retry_count =>
             \/ retry_count' = retry_count + 1 /\ retry_count' < max_retries
             \/ /\ retry_count + 1 = max_retries
                /\ retry_count' = 0
                /\ pc' = "fatal"]_vars

(* The part of C32 about the counter alone: it stays in range.              *)
RetryCountInRange == retry_count \in 0..(max_retries - 1)

(* The part of C32 about the counter alone: a failed attempt, and nothing   *)
(* else, moves it, by one and back to 0 from max_retries.                   *)
RetryCountCountsFailures ==
    [][IF exc' # Null /\ (attempt' = attempt + 1 \/ (pc' = "fatal" /\ pc # "fatal"))
       THEN retry_count' = (retry_count + 1) % max_retries
       ELSE retry_count' = retry_count]_vars

-----------------------------------------------------------------------------
(* C33: the rows get_beam_heads(version, k) gets from its query are exactly *)
(* k evaluated rows of the version of the highest values, or all of them    *)
(* when there are fewer than k, whichever of several equal values it may    *)
(* be; and the answers the query may give are the ones the top k by value   *)
(* alone may give, the best rows per depth changing nothing.                *)
C33_BeamHeadsAreGlobalTop ==
    /\ \A c \in DOMAIN calls :
          (/\ calls[c].op = "get_beam_heads" /\ calls[c].pc = "done"
           /\ calls[c].err = Null)
              => LET q == calls[c].outcome.val
                     k == calls[c].arg.beam_width
                     E == {i \in DOMAIN table :
                              /\ table[i].version = calls[c].arg.version
                              /\ table[i].state_json # Null
                              /\ table[i].value # Null}
                     R == {q[a] : a \in DOMAIN q}
                 IN /\ R \subseteq E
                    /\ Len(q) = Cardinality(R)
                    /\ Len(q) = IF Cardinality(E) < k THEN Cardinality(E) ELSE k
                    /\ \A i \in R : \A j \in E \ R :
                          Get(table[i].value) >= Get(table[j].value)
    /\ \A k \in 1..MaxBeamWidth :
          BeamHeads(table, DefaultVersion, k)
             = UNION {Descending(table, F) :
                         F \in Top(table, EvaluatedRows(table, DefaultVersion), k)}

(* get_beam_heads(version, 2) returned two rows of one depth while a row of *)
(* another depth, the best of its depth, has a lower value: the per-depth   *)
(* candidates would have had it.                                            *)
C33_Witness ==
    /\ calls[1].op = "get_beam_heads" /\ calls[1].pc = "done"
    /\ calls[1].err = Null
    /\ calls[1].arg.beam_width = 2
    /\ Len(calls[1].outcome.val) = 2
    /\ table[calls[1].outcome.val[1]].depth = table[calls[1].outcome.val[2]].depth
    /\ \E i \in EvaluatedRows(table, calls[1].arg.version) :
          table[i].depth # table[calls[1].outcome.val[1]].depth

-----------------------------------------------------------------------------
-----------------------------------------------------------------------------
(* C35: the save tasks of a batch, run together on one event loop, never    *)
(* hold connections at the same time: at most one connection of the pool is *)
(* checked out at any time, and a task that waits for its next attempt or   *)
(* has ended holds none.                                                    *)
C35_OneConnectionAtATime ==
    /\ Cardinality({c \in DOMAIN calls : calls[c].conn = "used"}) <= 1
    /\ \A c \in DOMAIN calls :
          calls[c].pc \in {"idle", "wait", "done"} => calls[c].conn # "used"

(* One save task holds a connection while the other, whose insert failed,   *)
(* waits for its second attempt.                                            *)
C35_Witness ==
    /\ calls[1].op = "create_program" /\ calls[1].pc = "wait"
    /\ calls[2].op = "create_program" /\ calls[2].conn = "used"

-----------------------------------------------------------------------------
(* C36: a cleanup that runs in another thread cannot make a store operation *)
(* in flight see the pool gone: from _ensure_pool to the getconn and the    *)
(* putconn of get_connection the pool is there, no operation fails on a     *)
(* pool that is None, and the connection of the operation goes back to a    *)
(* pool or is closed.                                                       *)
C36_PoolStaysUnderOperation ==
    \A c \in DOMAIN calls :
        /\ calls[c].pc \in {"getconn", "execute", "release"} => pool # 0
        /\ calls[c].err # Some("AttributeError")
        /\ calls[c].pc \in {"idle", "done", "except", "wait"}
              => calls[c].conn # "used"

-----------------------------------------------------------------------------
(* C37: the save of a batch is all or nothing for an attempt: when          *)
(* run_iteration has raised, to be retried or to end search, none of the    *)
(* programs of that attempt is in the store.                                *)
C37_NoPartialBatch ==
    (exc # Null /\ pc \in {"sample", "fatal"}) =>
        \A i \in DOMAIN written : written[i] \notin DOMAIN table

-----------------------------------------------------------------------------
(* C38: whenever create_program fails, at the acquisition of the connection *)
(* included, its handler runs through and the error that leaves it, the one *)
(* the retry policy looks at, is the error that made it fail.               *)
C38_OriginalErrorLeaves ==
    [][\A c \in DOMAIN calls :
          (/\ calls[c].op = "create_program"
           /\ calls[c].pc = "except"
           /\ calls'[c].pc # "except")
              => calls'[c].err = calls[c].err]_vars

(* The same for the operations whose handler has nothing but the raise.     *)
OriginalErrorLeavesOthers ==
    [][\A c \in DOMAIN calls :
          (/\ calls[c].op \in {"sample_parent"}
           /\ calls[c].pc = "except"
           /\ calls'[c].pc # "except")
              => calls'[c].err = calls[c].err]_vars

====
